---- MODULE Spec2Model ----
(***************************************************************************)
(* Tick-ingestion pipeline of zatamap-trade-rust: the ticker supervisor    *)
(* (main.rs run_ticker), the Kite websocket task (kite/ws.rs) and the      *)
(* shared tick store (ticks.rs).                                           *)
(*                                                                         *)
(* Option<T> is modelled as a sequence: None == <<>>, Some(x) == <<x>>.    *)
(* f64 values are modelled as exact rationals in lowest terms.             *)
(* Durations are in milliseconds.                                          *)
(***************************************************************************)
EXTENDS Integers, Sequences, FiniteSets, TLC

VARIABLES
    pc,            \* run_ticker: position of the supervisor
    result,        \* run_ticker: None while running, Some("ok") / Some(error text)
    creds,         \* run_ticker: credentials row loaded from trade.profile (Option)
    selected,      \* run_ticker: rows returned by the instrument selector (Option)
    preflights,    \* number of REST preflight requests issued
    preflight_ok,  \* outcome of kite.profile().await: None until the response arrives
    seeded,        \* seed_meta has been called by run_ticker
    stats_spawned, \* the 2-second stats task has been spawned
    by_token,      \* TickStore.by_token
    ws_pc,         \* WS task: position inside spawn / run_forever / run_once
    abort_req,     \* handle.abort() was called (or the runtime is shutting down)
    ws_key,        \* KiteTickerWs.api_key
    tokens,        \* KiteTickerWs.tokens
    allowed,       \* KiteTickerWs.allowed
    backoff,       \* run_forever: local `backoff`, in ms
    sleep_ms,      \* duration of the sleep in progress / last performed
    last_err,      \* Err value returned by the last run_once (None after Ok)
    writes,        \* frames written on the current connection, in send order
    sub_i,         \* subscribe_full: index of the chunk being sent
    sub_phase,     \* subscribe_full: which of the two sends of the chunk is next
    ping,          \* payload of the Ping being answered (Option)
    fail_streak,   \* history: consecutive failed run_once calls since spawn / last Ok
    first_err,     \* history: Err value of the first run_once (None if none / Ok)
    grown,         \* history: value of `backoff` when the last clean exit reset it,
                   \*   kept until the next connection or the end of the next sleep
    rx,            \* history: last message taken from the read half of the connection
    call,          \* history: last call made through a public API (operation, arguments)
    ret,           \* history: value returned by that call
    upd,           \* update_tick in progress on the writer thread (Option)
    locks          \* DashMap guards held: the writer's RefMut and the readers' Refs

vars == <<pc, result, creds, selected, preflights, preflight_ok, seeded, stats_spawned, by_token,
          ws_pc, abort_req, ws_key, tokens, allowed, backoff, sleep_ms, last_err,
          writes, sub_i, sub_phase, ping, fail_streak, first_err, grown, rx, call, ret,
          upd, locks>>

(***************************************************************************)
(* Bounds of the model                                                     *)
(***************************************************************************)
MaxFailStreak == 9      \* consecutive failures explored (the cap is reached at 8)
MaxTokens == 601        \* longest token list in the subscription specification
MaxClock == 2           \* wall-clock readings are 0..MaxClock half-seconds
MaxPongs == 1           \* Pong frames written per connection
MaxMetas == 2           \* longest meta list passed to seed_meta through the store API
NumReaders == 2         \* reader threads calling get_state
MaxPackets == 2         \* packets per frame handed to the decoder
MaxCatalog == 3         \* rows of trade.instrument in the selector specification

(***************************************************************************)
(* Option helpers                                                          *)
(***************************************************************************)
None == <<>>
Some(x) == <<x>>
IsSome(o) == o # <<>>

Min(a, b) == IF a < b THEN a ELSE b
\* variant: the time difference is taken as an absolute difference
SatSub_AbsDiff(a, b) == IF a > b THEN a - b ELSE b - a

\* u64::saturating_sub
SatSub(a, b) == IF a > b THEN a - b ELSE 0
Abs(a) == IF a < 0 THEN -a ELSE a

(***************************************************************************)
(* f64 as exact rationals [n, d] with d > 0 and gcd(n, d) = 1              *)
(***************************************************************************)
RECURSIVE GCD(_, _)
GCD(a, b) == IF b = 0 THEN a ELSE GCD(b, a % b)

RNorm(n, d) ==
    LET g == GCD(Abs(n), Abs(d))
        s == IF d < 0 THEN -1 ELSE 1
    IN [n |-> s * (n \div g), d |-> s * (d \div g)]

F64(i) == [n |-> i, d |-> 1]
RSub(x, y) == RNorm(x.n * y.d - y.n * x.d, x.d * y.d)
RMul(x, y) ==
    LET g1 == GCD(Abs(x.n), y.d)
        g2 == GCD(Abs(y.n), x.d)
    IN RNorm((x.n \div g1) * (y.n \div g2), (x.d \div g2) * (y.d \div g1))
RDiv(x, y) == RMul(x, RNorm(y.d, y.n))
RPos(x) == x.n > 0
RZero(x) == x.n = 0

(***************************************************************************)
(* ticks.rs: data model                                                    *)
(***************************************************************************)
TokenMeta_new(instrument_token, tradingsymbol, instrument_type, expiry, strike) ==
    [instrument_token |-> instrument_token,
     tradingsymbol    |-> tradingsymbol,
     instrument_type  |-> instrument_type,
     expiry           |-> expiry,
     strike           |-> strike]

DerivedMetrics_default ==
    [best_bid |-> None, best_ask |-> None, spread |-> None, spread_bps |-> None,
     price_roc_per_s |-> None, oi_roc_per_s |-> None, vol_roc_per_s |-> None]

TokenState_new(meta) ==
    [meta |-> meta, last_tick |-> None, derived |-> DerivedMetrics_default]

Tick_new_ltp(instrument_token, last_price, received_ns) ==
    [instrument_token |-> instrument_token, mode |-> "Ltp", last_price |-> last_price,
     last_quantity |-> None, average_traded_price |-> None, volume_traded |-> None,
     total_buy_quantity |-> None, total_sell_quantity |-> None, ohlc |-> None,
     change |-> None, last_trade_time |-> None, open_interest |-> None,
     oi_day_high |-> None, oi_day_low |-> None, exchange_timestamp |-> None,
     depth |-> None, received_ns |-> received_ns]

(***************************************************************************)
(* ticks.rs: big-endian readers.  `offset` is the 0-based byte offset; the *)
(* caller advances it by the width read.  Values of u32 fields are kept    *)
(* below 2^31 by the frames of the model; the i32 reader is the u32 reader *)
(* followed by the `as i32` cast.                                          *)
(***************************************************************************)
read_u16_be(buf, offset) ==
    IF offset + 2 > Len(buf) THEN None
    ELSE Some(buf[offset + 1] * 256 + buf[offset + 2])

read_u32_be(buf, offset) ==
    IF offset + 4 > Len(buf) THEN None
    ELSE Some(buf[offset + 1] * 16777216 + buf[offset + 2] * 65536
              + buf[offset + 3] * 256 + buf[offset + 4])

read_i32_be(buf, offset) ==
    IF offset + 4 > Len(buf) THEN None
    ELSE Some((IF buf[offset + 1] >= 128 THEN buf[offset + 1] - 256 ELSE buf[offset + 1])
                  * 16777216
              + buf[offset + 2] * 65536 + buf[offset + 3] * 256 + buf[offset + 4])

\* variant: the wire integer is taken as the price, without the division
Price_Paise(wire) == F64(wire)

\* (wire as f64) / 100.0
Price(wire) == RDiv(F64(wire), F64(100))

\* change computed by the decoder for 44- and 184-byte packets
ChangeOf(last_price, close) ==
    IF ~RZero(close) THEN RDiv(RSub(last_price, close), close) ELSE F64(0)

\* one 12-byte depth level: quantity(u32) + price(i32 paise) + orders(u16) + reserved(u16)
DepthLevelAt(packet, offset) ==
    [quantity |-> read_u32_be(packet, offset)[1],
     price    |-> Price(read_i32_be(packet, offset + 4)[1]),
     orders   |-> read_u16_be(packet, offset + 8)[1]]

\* variant: every packet longer than 8 bytes is reported as FULL
ModeOfLen_AllFull(n) == IF n = 8 THEN "Ltp" ELSE "Full"

\* the TickMode each arm of `match packet.len()` puts into its Tick
ModeOfLen(n) == IF n = 8 THEN "Ltp" ELSE IF n = 184 THEN "Full" ELSE "Quote"

decode_packet(packet, received_ns) ==
    IF Len(packet) < 8 THEN None
    ELSE
    LET instrument_token == read_i32_be(packet, 0)[1]
        last_price == Price(read_i32_be(packet, 4)[1])
        I(off) == read_i32_be(packet, off)
        U(off) == read_u32_be(packet, off)
        QuoteOk == /\ \A off \in {8, 16, 20, 24} : IsSome(U(off))
                   /\ \A off \in {12, 28, 32, 36, 40} : IsSome(I(off))
        Quote(mode) ==
            LET close == Price(I(40)[1]) IN
            [instrument_token |-> instrument_token, mode |-> mode,
             last_price |-> last_price,
             last_quantity |-> Some(U(8)[1]),
             average_traded_price |-> Some(Price(I(12)[1])),
             volume_traded |-> Some(U(16)[1]),
             total_buy_quantity |-> Some(U(20)[1]),
             total_sell_quantity |-> Some(U(24)[1]),
             ohlc |-> Some([open |-> Price(I(28)[1]), high |-> Price(I(32)[1]),
                            low |-> Price(I(36)[1]), close |-> close]),
             change |-> Some(ChangeOf(last_price, close)),
             last_trade_time |-> None, open_interest |-> None, oi_day_high |-> None,
             oi_day_low |-> None, exchange_timestamp |-> None, depth |-> None,
             received_ns |-> received_ns]
    IN
    CASE Len(packet) = 8 ->
            Some(Tick_new_ltp(instrument_token, last_price, received_ns))
      [] Len(packet) = 28 ->
            IF \E off \in {8, 12, 16, 20, 24} : ~IsSome(I(off)) THEN None
            ELSE Some([Tick_new_ltp(instrument_token, last_price, received_ns) EXCEPT
                    !.mode = ModeOfLen(28),
                    !.ohlc = Some([open |-> Price(I(16)[1]), high |-> Price(I(8)[1]),
                                   low |-> Price(I(12)[1]), close |-> Price(I(20)[1])]),
                    !.change = Some(Price(I(24)[1]))])
      [] Len(packet) = 44 ->
            IF ~QuoteOk THEN None ELSE Some(Quote(ModeOfLen(44)))
      [] Len(packet) = 184 ->
            IF ~QuoteOk \/ (\E off \in {44, 48, 52, 56, 60} : ~IsSome(U(off)))
                        \/ ~IsSome(read_u16_be(packet, 182))
            THEN None
            ELSE Some([Quote(ModeOfLen(184)) EXCEPT
                    !.last_trade_time = Some(U(44)[1]),
                    !.open_interest = Some(U(48)[1]),
                    !.oi_day_high = Some(U(52)[1]),
                    !.oi_day_low = Some(U(56)[1]),
                    !.exchange_timestamp = Some(U(60)[1]),
                    !.depth = Some([buy  |-> [i \in 1..5 |-> DepthLevelAt(packet, 64 + 12 * (i - 1))],
                                    sell |-> [i \in 1..5 |-> DepthLevelAt(packet, 124 + 12 * (i - 1))]])])
      [] OTHER -> None

\* variant: the packet is sliced without the overrun test, so the slice panics
RECURSIVE DecodeLoop_NoBoundsCheck(_, _, _, _)
DecodeLoop_NoBoundsCheck(payload, offset, remaining, received_ns) ==
    IF remaining = 0 THEN <<>>
    ELSE
    LET pl == read_u16_be(payload, offset) IN
    IF pl = None THEN <<>>
    ELSE
    LET packet_len == pl[1]
        start == offset + 2
    IN
    IF start + packet_len > Len(payload) THEN <<[panic |-> TRUE]>>
    ELSE
    LET tick == decode_packet(SubSeq(payload, start + 1, start + packet_len), received_ns)
    IN tick \o DecodeLoop_NoBoundsCheck(payload, start + packet_len, remaining - 1, received_ns)

\* variant: the loop ends at the first packet that yields no tick
RECURSIVE DecodeLoop_StopAtUnknown(_, _, _, _)
DecodeLoop_StopAtUnknown(payload, offset, remaining, received_ns) ==
    IF remaining = 0 THEN <<>>
    ELSE
    LET pl == read_u16_be(payload, offset) IN
    IF pl = None THEN <<>>
    ELSE
    LET packet_len == pl[1]
        start == offset + 2
    IN
    IF start + packet_len > Len(payload) THEN <<>>
    ELSE
    LET tick == decode_packet(SubSeq(payload, start + 1, start + packet_len), received_ns)
    IN IF tick = None THEN <<>>
       ELSE tick \o DecodeLoop_StopAtUnknown(payload, start + packet_len, remaining - 1,
                                             received_ns)

\* variant: the loop reads packets until the payload ends, whatever the count
RECURSIVE DecodeLoop_IgnoreCount(_, _, _, _)
DecodeLoop_IgnoreCount(payload, offset, remaining, received_ns) ==
    LET pl == read_u16_be(payload, offset) IN
    IF pl = None THEN <<>>
    ELSE
    LET packet_len == pl[1]
        start == offset + 2
    IN
    IF start + packet_len > Len(payload) THEN <<>>
    ELSE
    LET tick == decode_packet(SubSeq(payload, start + 1, start + packet_len), received_ns)
    IN tick \o DecodeLoop_IgnoreCount(payload, start + packet_len, remaining - 1,
                                      received_ns)

\* the `for _ in 0..n_packets` loop of decode_binary_ticks
RECURSIVE DecodeLoop(_, _, _, _)
DecodeLoop(payload, offset, remaining, received_ns) ==
    IF remaining = 0 THEN <<>>
    ELSE
    LET pl == read_u16_be(payload, offset) IN
    IF pl = None THEN <<>>
    ELSE
    LET packet_len == pl[1]
        start == offset + 2
    IN
    IF start + packet_len > Len(payload) THEN <<>>
    ELSE
    LET tick == decode_packet(SubSeq(payload, start + 1, start + packet_len), received_ns)
    IN tick \o DecodeLoop(payload, start + packet_len, remaining - 1, received_ns)

\* variant: the loop runs one time less than the header count
decode_binary_ticks_OneLess(payload, received_ns) ==
    IF Len(payload) < 2 THEN <<>>
    ELSE DecodeLoop(payload, 2, SatSub(read_u16_be(payload, 0)[1], 1), received_ns)

decode_binary_ticks(payload, received_ns) ==
    IF Len(payload) < 2 THEN <<>>
    ELSE DecodeLoop(payload, 2, read_u16_be(payload, 0)[1], received_ns)

(***************************************************************************)
(* ticks.rs: TickStore.  A store is a function token -> TokenState.        *)
(***************************************************************************)
\* variant: insert() instead of entry().or_insert_with()
SeedOne_Overwrite(store, meta) ==
    [t \in DOMAIN store \cup {meta.instrument_token} |->
        IF t = meta.instrument_token THEN TokenState_new(meta) ELSE store[t]]

\* body of the seed_meta loop: entry(token).or_insert_with(|| TokenState::new(meta))
SeedOne(store, meta) ==
    IF meta.instrument_token \in DOMAIN store THEN store
    ELSE store @@ (meta.instrument_token :> TokenState_new(meta))

RECURSIVE seed_meta(_, _)
seed_meta(store, metas) ==
    IF metas = <<>> THEN store
    ELSE seed_meta(SeedOne(store, Head(metas)), Tail(metas))

\* variant: a metric whose field is missing on either tick is reset to None
RocUpdate_ResetMissing(derived, prev, tick) ==
    LET dt_ns == SatSub(tick.received_ns, prev.received_ns)
        dt_s  == RDiv(F64(dt_ns), F64(1000000000))
    IN
    IF RPos(dt_s) THEN
        [derived EXCEPT
            !.price_roc_per_s = Some(RDiv(RSub(tick.last_price, prev.last_price), dt_s)),
            !.oi_roc_per_s =
                IF IsSome(tick.open_interest) /\ IsSome(prev.open_interest)
                THEN Some(RDiv(RSub(F64(tick.open_interest[1]), F64(prev.open_interest[1])), dt_s))
                ELSE None,
            !.vol_roc_per_s =
                IF IsSome(tick.volume_traded) /\ IsSome(prev.volume_traded)
                THEN Some(RDiv(RSub(F64(tick.volume_traded[1]), F64(prev.volume_traded[1])), dt_s))
                ELSE None]
    ELSE derived

\* ROC part of update_tick (a previous tick exists)
RocUpdate(derived, prev, tick) ==
    LET dt_ns == SatSub(tick.received_ns, prev.received_ns)
        dt_s  == RDiv(F64(dt_ns), F64(1000000000))
    IN
    IF RPos(dt_s) THEN
        [derived EXCEPT
            !.price_roc_per_s = Some(RDiv(RSub(tick.last_price, prev.last_price), dt_s)),
            !.oi_roc_per_s =
                IF IsSome(tick.open_interest) /\ IsSome(prev.open_interest)
                THEN Some(RDiv(RSub(F64(tick.open_interest[1]), F64(prev.open_interest[1])), dt_s))
                ELSE @,
            !.vol_roc_per_s =
                IF IsSome(tick.volume_traded) /\ IsSome(prev.volume_traded)
                THEN Some(RDiv(RSub(F64(tick.volume_traded[1]), F64(prev.volume_traded[1])), dt_s))
                ELSE @]
    ELSE derived

\* variant: spread_bps is taken relative to the best bid
SpreadUpdate_BpsOfBid(derived, tick) ==
    IF IsSome(tick.depth) THEN
        LET bid == tick.depth[1].buy[1].price
            ask == tick.depth[1].sell[1].price
            spread == RSub(ask, bid)
        IN [derived EXCEPT
              !.best_bid = Some(bid),
              !.best_ask = Some(ask),
              !.spread = Some(spread),
              !.spread_bps = IF RPos(bid)
                             THEN Some(RMul(RDiv(spread, bid), F64(10000)))
                             ELSE None]
    ELSE derived

\* variant: a tick without depth clears the spread metrics
SpreadUpdate_ClearNoDepth(derived, tick) ==
    IF IsSome(tick.depth) THEN
        LET bid == tick.depth[1].buy[1].price
            ask == tick.depth[1].sell[1].price
            spread == RSub(ask, bid)
        IN [derived EXCEPT
              !.best_bid = Some(bid),
              !.best_ask = Some(ask),
              !.spread = Some(spread),
              !.spread_bps = IF RPos(tick.last_price)
                             THEN Some(RMul(RDiv(spread, tick.last_price), F64(10000)))
                             ELSE None]
    ELSE [derived EXCEPT !.best_bid = None, !.best_ask = None,
                         !.spread = None, !.spread_bps = None]

\* spread part of update_tick (FULL mode depth)
SpreadUpdate(derived, tick) ==
    IF IsSome(tick.depth) THEN
        LET bid == tick.depth[1].buy[1].price
            ask == tick.depth[1].sell[1].price
            spread == RSub(ask, bid)
        IN [derived EXCEPT
              !.best_bid = Some(bid),
              !.best_ask = Some(ask),
              !.spread = Some(spread),
              !.spread_bps = IF RPos(tick.last_price)
                             THEN Some(RMul(RDiv(spread, tick.last_price), F64(10000)))
                             ELSE None]
    ELSE derived

\* variant: the state keeps its old last_tick
update_tick_KeepLast(store, tick) ==
    LET token == tick.instrument_token IN
    IF token \in DOMAIN store THEN
        LET state == store[token]
            d1 == IF IsSome(state.last_tick)
                  THEN RocUpdate(state.derived, state.last_tick[1], tick)
                  ELSE state.derived
            d2 == SpreadUpdate(d1, tick)
        IN [store EXCEPT ![token] = [state EXCEPT !.derived = d2]]
    ELSE
        store @@ (token :> [TokenState_new(TokenMeta_new(token, "", "UNKNOWN", None, None))
                              EXCEPT !.last_tick = Some(tick)])

\* variant: the fallback path also derives the spread of the first tick
update_tick_UnknownSpread(store, tick) ==
    LET token == tick.instrument_token IN
    IF token \in DOMAIN store THEN
        LET state == store[token]
            d1 == IF IsSome(state.last_tick)
                  THEN RocUpdate(state.derived, state.last_tick[1], tick)
                  ELSE state.derived
            d2 == SpreadUpdate(d1, tick)
        IN [store EXCEPT ![token] = [state EXCEPT !.derived = d2, !.last_tick = Some(tick)]]
    ELSE
        store @@ (token :> [TokenState_new(TokenMeta_new(token, "", "UNKNOWN", None, None))
                              EXCEPT !.last_tick = Some(tick),
                                     !.derived = SpreadUpdate(DerivedMetrics_default, tick)])

update_tick(store, tick) ==
    LET token == tick.instrument_token IN
    IF token \in DOMAIN store THEN
        LET state == store[token]
            d1 == IF IsSome(state.last_tick)
                  THEN RocUpdate(state.derived, state.last_tick[1], tick)
                  ELSE state.derived
            d2 == SpreadUpdate(d1, tick)
        IN [store EXCEPT ![token] = [state EXCEPT !.derived = d2, !.last_tick = Some(tick)]]
    ELSE
        store @@ (token :> [TokenState_new(TokenMeta_new(token, "", "UNKNOWN", None, None))
                              EXCEPT !.last_tick = Some(tick)])

get_state(store, instrument_token) ==
    IF instrument_token \in DOMAIN store THEN Some(store[instrument_token]) ELSE None

len(store) == Cardinality(DOMAIN store)

\* variant: the filter keeps the states without a tick
received_token_count_NoTick(store) ==
    Cardinality({t \in DOMAIN store : ~IsSome(store[t].last_tick)})

received_token_count(store) ==
    Cardinality({t \in DOMAIN store : IsSome(store[t].last_tick)})

(***************************************************************************)
(* Inputs of the supervisor: credentials rows, selector results            *)
(***************************************************************************)
\* Strings that are inspected character by character are sequences of characters.
IsWhitespace(c) == c = " "

RECURSIVE TrimStart(_)
TrimStart(s) ==
    IF s # <<>> /\ IsWhitespace(Head(s)) THEN TrimStart(Tail(s)) ELSE s

RECURSIVE TrimEnd(_)
TrimEnd(s) ==
    IF s # <<>> /\ IsWhitespace(s[Len(s)]) THEN TrimEnd(SubSeq(s, 1, Len(s) - 1)) ELSE s

\* variant: the token is not trimmed before the emptiness test
Trim_Identity(s) == s

\* str::trim
Trim(s) == TrimEnd(TrimStart(s))

\* creds.access_token.clone().map(|s| s.trim().to_string()).filter(|s| !s.is_empty())
UsableAccessToken(access_token) ==
    IF IsSome(access_token) /\ Trim(access_token[1]) # <<>>
    THEN Some(Trim(access_token[1]))
    ELSE None

\* api_key values: a plain key, a key holding a control character (not a legal
\* HTTP header value), and a key too long for a URI (http::Uri is limited to 65534 bytes)
KeyPlain == "key"
KeyCtl == "key_ctl"
KeyLong == "key_long"
ApiKeys == {KeyPlain, KeyCtl, KeyLong}

AccessTokens == {None, Some(<<>>), Some(<<" ">>), Some(<<" ", "t", " ">>)}

CredRows == {[api_key |-> k, access_token |-> t] : k \in ApiKeys, t \in AccessTokens}
OptCredRows == {None} \cup {Some(r) : r \in CredRows}

\* HeaderValue::from_str(&format!("token {api_key}:{access_token}")) in KiteClient::new
KiteClient_new_ok(api_key, access_token) == api_key # KeyCtl

\* url.into_client_request() in run_once
RequestBuilds(api_key, access_token) == api_key # KeyLong

NIFTY_INDEX_TOKEN == 256265
\* two option contracts of the catalog, one numbered below the index token and
\* one above it
CatalogTokens == <<101, 300000>>
OptA == CatalogTokens[1]
OptB == CatalogTokens[2]
Stray == CatalogTokens[2] + 897    \* a token the server may send although never subscribed

MetaRow(token, sym, ty) == TokenMeta_new(token, sym, ty, Some("2026-11-05"), Some(F64(25000)))

\* results of fetch_nifty_current_week_option_meta: (expiry, rows ordered by token)
SelectorResults ==
    { [expiry |-> None, rows |-> <<>>],
      [expiry |-> Some("2026-11-05"), rows |-> <<MetaRow(OptA, "NIFTY25000CE", "CE")>>],
      [expiry |-> Some("2026-11-05"),
       rows |-> <<MetaRow(OptA, "NIFTY25000CE", "CE"), MetaRow(OptB, "NIFTY25000PE", "PE")>>] }

\* metas.push(TokenMeta::new(NIFTY_INDEX_TOKEN, "NIFTY", "INDEX", None, None))
MetasOf(rows) == Append(rows, TokenMeta_new(NIFTY_INDEX_TOKEN, "NIFTY", "INDEX", None, None))

RECURSIVE Insert(_, _)
Insert(x, sorted) ==
    IF sorted = <<>> THEN <<x>>
    ELSE IF x <= Head(sorted) THEN <<x>> \o sorted
    ELSE <<Head(sorted)>> \o Insert(x, Tail(sorted))

\* tokens.sort_unstable()
RECURSIVE Sort(_)
Sort(seq) == IF seq = <<>> THEN <<>> ELSE Insert(Head(seq), Sort(Tail(seq)))

\* tokens.dedup(): removes consecutive repeated elements
RECURSIVE Dedup(_)
Dedup(seq) ==
    IF Len(seq) < 2 THEN seq
    ELSE IF seq[1] = seq[2] THEN Dedup(Tail(seq))
    ELSE <<Head(seq)>> \o Dedup(Tail(seq))

\* variant: the list keeps the order of the metas
TokenList_Unsorted(metas) == Dedup([i \in 1..Len(metas) |-> metas[i].instrument_token])

\* metas.iter().map(|m| m.instrument_token).collect(); sort_unstable(); dedup()
TokenList(metas) == Dedup(Sort([i \in 1..Len(metas) |-> metas[i].instrument_token]))

\* KiteTickerWs::new: allowed = tokens.iter().copied().collect::<HashSet<_>>()
AllowedOf(toks) == {toks[i] : i \in 1..Len(toks)}

\* process exit code of main() for a run_ticker result
ExitCode(res) == IF res = Some("ok") THEN 0 ELSE 1

(***************************************************************************)
(* Wire frames the server sends in the model                               *)
(***************************************************************************)
U16(v) == <<v \div 256, v % 256>>
I32(v) == <<(v \div 16777216) % 256, (v \div 65536) % 256, (v \div 256) % 256, v % 256>>

LtpPacket(token, paise) == I32(token) \o I32(paise)

\* 28-byte index packet: token, last_price, high, low, open, close, change
IndexPacket(token, paise, close) ==
    I32(token) \o I32(paise) \o I32(paise) \o I32(paise) \o I32(close) \o I32(close)
        \o I32(paise - close)

\* 44-byte quote packet: token, last_price, last_quantity, average price, volume,
\* buy quantity, sell quantity, open, high, low, close
QuotePacket(token, paise, volume, close) ==
    I32(token) \o I32(paise) \o I32(1) \o I32(paise) \o I32(volume) \o I32(0) \o I32(0)
        \o I32(close) \o I32(paise) \o I32(paise) \o I32(close)

\* one 12-byte depth level
DepthBytes(quantity, paise, orders) == I32(quantity) \o I32(paise) \o U16(orders) \o U16(0)

\* 184-byte full packet: the quote fields, last_trade_time, open_interest,
\* oi_day_high, oi_day_low, exchange_timestamp, 5 buy levels, 5 sell levels
FullPacket(token, paise, volume, oi, bid, ask) ==
    QuotePacket(token, paise, volume, paise)
        \o I32(0) \o I32(oi) \o I32(oi) \o I32(oi) \o I32(0)
        \o DepthBytes(1, bid, 1) \o DepthBytes(1, bid - 5, 1) \o DepthBytes(1, bid - 10, 1)
        \o DepthBytes(1, bid - 15, 1) \o DepthBytes(1, bid - 20, 1)
        \o DepthBytes(1, ask, 1) \o DepthBytes(1, ask + 5, 1) \o DepthBytes(1, ask + 10, 1)
        \o DepthBytes(1, ask + 15, 1) \o DepthBytes(1, ask + 20, 1)

RECURSIVE PacketBytes(_)
PacketBytes(packets) ==
    IF packets = <<>> THEN <<>>
    ELSE U16(Len(Head(packets))) \o Head(packets) \o PacketBytes(Tail(packets))

FrameOf(packets) == U16(Len(packets)) \o PacketBytes(packets)

\* binary frames received by the read loop
Frames ==
    { FrameOf(<<LtpPacket(OptA, 10000), LtpPacket(Stray, 500), LtpPacket(OptA, 10050)>>),
      FrameOf(<<LtpPacket(NIFTY_INDEX_TOKEN, 2500000)>>) }

NsStep == 1000000000 \div 2          \* wall-clock readings are multiples of half a second
NsValues == {k * NsStep : k \in 0..MaxClock}

\* readings of now_unix_ns() in the read loop: an earlier and a later instant;
\* SystemTime is not monotonic, so either may follow the other
WsClock == {0, NsStep}

PingPayloads == {<<>>, <<1>>}     \* Ping frames carry up to 125 bytes of payload

(***************************************************************************)
(* kite/ws.rs: constants and pure parts                                    *)
(***************************************************************************)
InitialBackoff == 250      \* Duration::from_millis(250)
max_backoff == 30000       \* Duration::from_secs(30)
CHUNK == 300

\* variant: the Ok arm leaves the backoff as it is
BackoffAfterOk_Keep(b) == b

\* Ok arm of run_forever: backoff = Duration::from_millis(250)
BackoffAfterOk(b) == 250

\* variant: doubling without the cap
BackoffAfterErr_NoCap(b) == b * 2

\* Err arm of run_forever: backoff = (backoff * 2).min(max_backoff)
BackoffAfterErr(b) == Min(b * 2, max_backoff)

\* variant: the Err arm returns the error from run_forever
ErrArmNext_Return == "exited"

\* Err arm of run_forever: the task sleeps (and stays inside the loop)
ErrArmNext == "sleep"

\* variant: the loop is left after one iteration
LoopNext_Break == "exited"

\* bottom of the loop body after the sleep: the next iteration calls run_once
LoopNext == "run_once"

\* variant: the trailing partial chunk is not sent
NumChunks_Floor(n) == n \div CHUNK

\* slice::chunks(CHUNK): number of chunks and the i-th chunk (1-based)
NumChunks(n) == (n \div CHUNK) + (IF n % CHUNK # 0 THEN 1 ELSE 0)
ChunkAt(toks, i) == SubSeq(toks, (i - 1) * CHUNK + 1, Min(i * CHUNK, Len(toks)))

SubscribeMsg(chunk) == [a |-> "subscribe", v |-> chunk]
ModeMsg(chunk) == [a |-> "mode", mode |-> "full", v |-> chunk]

\* variant: the Pong is sent without the payload of the Ping
PongMsg_Empty(payload) == [a |-> "pong", v |-> <<>>]

\* Message::Pong(p)
PongMsg(payload) == [a |-> "pong", v |-> payload]

\* variant: every decoded tick is stored
KeepTick_All(allow, t) == TRUE

\* if self.allowed.contains(&t.instrument_token)
KeepTick(allow, t) == t.instrument_token \in allow

\* variant: the read loop calls update_tick for every decoded tick
CallsFor_Unfiltered(allow, ticks) == ticks

\* the ticks of one frame for which the read loop calls update_tick, in order
CallsFor(allow, ticks) == SelectSeq(ticks, LAMBDA t : KeepTick(allow, t))

\* variant: the ticks of a frame are applied last packet first
RECURSIVE ApplyTicks_Reverse(_, _)
ApplyTicks_Reverse(store, ticks) ==
    IF ticks = <<>> THEN store
    ELSE update_tick(ApplyTicks_Reverse(store, Tail(ticks)), Head(ticks))

\* for t in ticks { if allowed.contains(..) { store.update_tick(t) } }
RECURSIVE ApplyTicks(_, _)
ApplyTicks(store, ticks) ==
    IF ticks = <<>> THEN store
    ELSE ApplyTicks(update_tick(store, Head(ticks)), Tail(ticks))

NoRx == [kind |-> "none", bin |-> <<>>, decoded |-> <<>>, calls |-> <<>>]
NoCall == [op |-> "none", arg |-> <<>>]

\* threads that read the store while the WS task writes it
Readers == 1..NumReaders
NoLocks == [writer |-> None, readers |-> [r \in Readers |-> None]]

\* points where the WS task is suspended in an .await and can be cancelled
SuspensionPoints == {"connect", "subscribe", "read", "pong", "sleep"}

(***************************************************************************)
(* State after process start: run_ticker has not run, nothing is spawned   *)
(***************************************************************************)
EmptyStore == [t \in {} |-> TokenState_new(TokenMeta_new(t, "", "", None, None))]

WsVarsInit ==
    /\ ws_pc = "none"
    /\ abort_req = FALSE
    /\ ws_key = ""
    /\ tokens = <<>>
    /\ allowed = {}
    /\ backoff = 0
    /\ sleep_ms = 0
    /\ last_err = None
    /\ writes = <<>>
    /\ sub_i = 0
    /\ sub_phase = "subscribe"
    /\ ping = None
    /\ fail_streak = 0
    /\ first_err = None
    /\ grown = 0
    /\ rx = NoRx

ApiVarsInit ==
    /\ call = NoCall
    /\ ret = None
    /\ upd = None
    /\ locks = NoLocks

Init ==
    /\ pc = "config"
    /\ result = None
    /\ creds = None
    /\ selected = None
    /\ preflights = 0
    /\ preflight_ok = None
    /\ seeded = FALSE
    /\ stats_spawned = FALSE
    /\ by_token = EmptyStore
    /\ ApiVarsInit
    /\ WsVarsInit

wsVars == <<ws_pc, abort_req, ws_key, tokens, allowed, backoff, sleep_ms, last_err,
            writes, sub_i, sub_phase, ping, fail_streak, first_err, grown, rx>>
rtVars == <<pc, result, creds, selected, preflights, preflight_ok, seeded, stats_spawned>>
apiVars == <<call, ret, upd, locks>>

(***************************************************************************)
(* Cancellation of the WS task                                             *)
(***************************************************************************)
\* the task is dropped at the .await it is suspended in: its locals are gone
WsDropped ==
    /\ ws_pc' = "aborted"
    /\ backoff' = 0
    /\ sleep_ms' = 0
    /\ last_err' = None
    /\ writes' = <<>>
    /\ sub_i' = 0
    /\ sub_phase' = "subscribe"
    /\ ping' = None
    /\ fail_streak' = 0
    /\ grown' = 0
    /\ rx' = NoRx
    /\ UNCHANGED <<ws_key, tokens, allowed, first_err, by_token>>

\* handle.abort() / runtime shutdown: a task suspended in an .await is dropped
\* without running again; a task that is being polled runs on to its next .await
AbortWs ==
    /\ abort_req' = TRUE
    /\ IF ws_pc \in SuspensionPoints
       THEN WsDropped
       ELSE UNCHANGED <<ws_pc, ws_key, tokens, allowed, backoff, sleep_ms, last_err,
                        writes, sub_i, sub_phase, ping, fail_streak, first_err, grown,
                        rx, by_token>>

(***************************************************************************)
(* main.rs: run_ticker                                                     *)
(***************************************************************************)
\* return Err(e) from run_ticker: main returns the error and the process ends
RtFail(e) ==
    /\ pc' = "done"
    /\ result' = Some(e)

\* AppConfig::from_env_ticker()?; Db::connect(..).await?
Configure ==
    /\ pc = "config"
    /\ \E ok \in BOOLEAN :
         IF ok THEN pc' = "creds" /\ result' = result
         ELSE RtFail("db connect failed")
    /\ UNCHANGED <<creds, selected, preflights, preflight_ok, seeded, stats_spawned, by_token, apiVars>>
    /\ UNCHANGED wsVars

\* the two credential lookups, the access_token check, KiteClient::new and
\* the start of the preflight request
LoadCreds ==
    /\ pc = "creds"
    /\ \E row_os \in OptCredRows, row_any \in OptCredRows :
         LET found == IF IsSome(row_os) THEN row_os ELSE row_any IN
         /\ creds' = found
         /\ IF found = None
            THEN RtFail("user not found in trade.profile") /\ preflights' = preflights
            ELSE IF UsableAccessToken(found[1].access_token) = None
            THEN RtFail("no access_token (run autologin first)") /\ preflights' = preflights
            ELSE IF ~KiteClient_new_ok(found[1].api_key,
                                       UsableAccessToken(found[1].access_token)[1])
            THEN RtFail("invalid header value") /\ preflights' = preflights
            ELSE /\ pc' = "preflight"
                 /\ result' = result
                 /\ preflights' = preflights + 1
    /\ UNCHANGED <<selected, preflight_ok, seeded, stats_spawned, by_token, apiVars>>
    /\ UNCHANGED wsVars

\* a failing query of either credential lookup
LoadCredsDbError ==
    /\ pc = "creds"
    /\ RtFail("db error")
    /\ UNCHANGED <<creds, selected, preflights, preflight_ok, seeded, stats_spawned, by_token, apiVars>>
    /\ UNCHANGED wsVars

\* variant: the preflight result is propagated with `?`
Preflight_Propagate ==
    /\ pc = "preflight"
    /\ \E ok \in BOOLEAN :
         /\ preflight_ok' = Some(ok)
         /\ IF ok THEN pc' = "select" /\ result' = result
            ELSE RtFail("kite REST auth preflight failed")
    /\ UNCHANGED <<creds, selected, preflights, seeded, stats_spawned, by_token, apiVars>>
    /\ UNCHANGED wsVars

\* match kite.profile().await: Ok is logged with info!, Err with warn!; both
\* arms fall through to the selector
Preflight ==
    /\ pc = "preflight"
    /\ \E ok \in BOOLEAN :
         /\ preflight_ok' = Some(ok)
         /\ pc' = "select"
    /\ UNCHANGED <<result, creds, selected, preflights, seeded, stats_spawned, by_token, apiVars>>
    /\ UNCHANGED wsVars

\* fetch_nifty_current_week_option_meta(..).await? fails
SelectDbError ==
    /\ pc = "select"
    /\ RtFail("db error")
    /\ UNCHANGED <<creds, selected, preflights, preflight_ok, seeded, stats_spawned, by_token, apiVars>>
    /\ UNCHANGED wsVars

\* selector result, index token, seed_meta, sort + dedup, KiteTickerWs::new,
\* ws.spawn() and the spawn of the stats task (no .await in between)
SelectAndSpawn ==
    /\ pc = "select"
    /\ \E sel \in SelectorResults :
         LET metas == MetasOf(sel.rows)
             toks  == TokenList(metas)
         IN
         /\ selected' = Some(sel)
         /\ by_token' = seed_meta(by_token, metas)
         /\ seeded' = TRUE
         /\ tokens' = toks
         /\ allowed' = AllowedOf(toks)
    /\ ws_key' = creds[1].api_key
    /\ ws_pc' = "run_once"
    /\ backoff' = InitialBackoff
    /\ stats_spawned' = TRUE
    /\ pc' = "wait"
    /\ UNCHANGED <<result, creds, preflights, preflight_ok, apiVars>>
    /\ UNCHANGED <<abort_req, sleep_ms, last_err, writes, sub_i, sub_phase, ping,
                   fail_streak, first_err, grown, rx>>

\* the TICKER_RUN_SECS timer elapses or ctrl-c arrives: handle.abort(); Ok(())
Shutdown ==
    /\ pc = "wait"
    /\ pc' = "done"
    /\ result' = Some("ok")
    /\ AbortWs
    /\ UNCHANGED <<creds, selected, preflights, preflight_ok, seeded, stats_spawned, apiVars>>

\* tokio::signal::ctrl_c() fails: run_ticker returns the error without
\* handle.abort(); the runtime shutdown at process exit cancels the tasks
CtrlCFail ==
    /\ pc = "wait"
    /\ RtFail("ctrl-c handler failed")
    /\ AbortWs
    /\ UNCHANGED <<creds, selected, preflights, preflight_ok, seeded, stats_spawned, apiVars>>

(***************************************************************************)
(* kite/ws.rs: the WS task (spawn -> run_forever -> run_once)              *)
(***************************************************************************)
wsFixed == <<abort_req, ws_key, tokens, allowed>>
others == <<pc, result, creds, selected, preflights, preflight_ok, seeded, stats_spawned, apiVars>>

\* run_once returns Err(AppError::KiteApi(e)) to the match in run_forever
ReturnErr(e) ==
    /\ fail_streak < MaxFailStreak
    /\ ws_pc' = "ret_err"
    /\ last_err' = Some(e)
    /\ fail_streak' = fail_streak + 1
    /\ grown' = grown

\* run_once returns Ok(()) to the match in run_forever
ReturnOk ==
    /\ ws_pc' = "ret_ok"
    /\ last_err' = None
    /\ fail_streak' = 0
    /\ grown' = grown

\* variant: run_once does not look at the token list before connecting
RunOnce_NoEmptyCheck ==
    /\ ws_pc = "run_once"
    /\ writes' = <<>>
    /\ rx' = NoRx
    /\ IF ~RequestBuilds(ws_key, creds[1].access_token)
       THEN /\ ReturnErr("ws request build failed")
            /\ first_err' = IF first_err = None THEN Some("ws request build failed")
                             ELSE first_err
       ELSE /\ ws_pc' = "connect"
            /\ first_err' = IF first_err = None THEN Some("request built") ELSE first_err
            /\ UNCHANGED <<last_err, fail_streak, grown>>
    /\ UNCHANGED <<backoff, sleep_ms, sub_i, sub_phase, ping, by_token>>
    /\ UNCHANGED wsFixed /\ UNCHANGED others

\* run_once up to connect_async(req).await
RunOnce ==
    /\ ws_pc = "run_once"
    /\ writes' = <<>>
    /\ rx' = NoRx
    /\ IF tokens = <<>>
       THEN /\ ReturnErr("no tokens to subscribe")
            /\ first_err' = IF first_err = None THEN Some("no tokens to subscribe")
                             ELSE first_err
       ELSE IF ~RequestBuilds(ws_key, creds[1].access_token)
       THEN /\ ReturnErr("ws request build failed")
            /\ first_err' = IF first_err = None THEN Some("ws request build failed")
                             ELSE first_err
       ELSE /\ ws_pc' = "connect"
            /\ first_err' = IF first_err = None THEN Some("request built") ELSE first_err
            /\ UNCHANGED <<last_err, fail_streak, grown>>
    /\ UNCHANGED <<backoff, sleep_ms, sub_i, sub_phase, ping, by_token>>
    /\ UNCHANGED wsFixed /\ UNCHANGED others

\* variant: a successful connect resets the backoff
ConnectOk_ResetBackoff ==
    /\ ws_pc = "connect" /\ ~abort_req
    /\ ws_pc' = "subscribe"
    /\ sub_i' = 1
    /\ sub_phase' = "subscribe"
    /\ grown' = 0
    /\ backoff' = InitialBackoff
    /\ UNCHANGED <<sleep_ms, last_err, writes, ping, fail_streak, first_err,
                   rx, by_token>>
    /\ UNCHANGED wsFixed /\ UNCHANGED others

ConnectOk ==
    /\ ws_pc = "connect" /\ ~abort_req
    /\ ws_pc' = "subscribe"
    /\ sub_i' = 1
    /\ sub_phase' = "subscribe"
    /\ grown' = 0
    /\ UNCHANGED <<backoff, sleep_ms, last_err, writes, ping, fail_streak, first_err,
                   rx, by_token>>
    /\ UNCHANGED wsFixed /\ UNCHANGED others

ConnectErr ==
    /\ ws_pc = "connect" /\ ~abort_req
    /\ ReturnErr("ws connect failed")
    /\ UNCHANGED <<backoff, sleep_ms, writes, sub_i, sub_phase, ping, rx, first_err, by_token>>
    /\ UNCHANGED wsFixed /\ UNCHANGED others

\* subscribe_full: first send of the chunk
SendSubscribe ==
    /\ ws_pc = "subscribe" /\ sub_phase = "subscribe" /\ ~abort_req
    /\ writes' = Append(writes, SubscribeMsg(ChunkAt(tokens, sub_i)))
    /\ sub_phase' = "mode"
    /\ UNCHANGED <<ws_pc, backoff, sleep_ms, last_err, sub_i, ping, fail_streak,
                   first_err, grown, rx, by_token>>
    /\ UNCHANGED wsFixed /\ UNCHANGED others

SendSubscribeErr ==
    /\ ws_pc = "subscribe" /\ sub_phase = "subscribe" /\ ~abort_req
    /\ ReturnErr("ws subscribe send failed")
    /\ UNCHANGED <<backoff, sleep_ms, writes, sub_i, sub_phase, ping, rx, first_err, by_token>>
    /\ UNCHANGED wsFixed /\ UNCHANGED others

\* variant: subscribe_full returns after the first chunk
MoreChunks_None(i, n) == FALSE

\* for chunk in self.tokens.chunks(CHUNK): chunk i of n is followed by another
MoreChunks(i, n) == i < n

\* variant: subscribe_full consumes the token list with its last chunk
SendMode_TakeTokens ==
    /\ ws_pc = "subscribe" /\ sub_phase = "mode" /\ ~abort_req
    /\ writes' = Append(writes, ModeMsg(ChunkAt(tokens, sub_i)))
    /\ sub_phase' = "subscribe"
    /\ IF sub_i < NumChunks(Len(tokens))
       THEN sub_i' = sub_i + 1 /\ ws_pc' = ws_pc /\ tokens' = tokens
       ELSE sub_i' = 0 /\ ws_pc' = "read" /\ tokens' = <<>>
    /\ UNCHANGED <<backoff, sleep_ms, last_err, ping, fail_streak, first_err, grown,
                   rx, by_token, abort_req, ws_key, allowed>>
    /\ UNCHANGED others

\* subscribe_full: second send of the chunk, then the next chunk or the read loop
SendMode ==
    /\ ws_pc = "subscribe" /\ sub_phase = "mode" /\ ~abort_req
    /\ writes' = Append(writes, ModeMsg(ChunkAt(tokens, sub_i)))
    /\ sub_phase' = "subscribe"
    /\ IF MoreChunks(sub_i, NumChunks(Len(tokens)))
       THEN sub_i' = sub_i + 1 /\ ws_pc' = ws_pc
       ELSE sub_i' = 0 /\ ws_pc' = "read"
    /\ UNCHANGED <<backoff, sleep_ms, last_err, ping, fail_streak, first_err, grown,
                   rx, by_token>>
    /\ UNCHANGED wsFixed /\ UNCHANGED others

SendModeErr ==
    /\ ws_pc = "subscribe" /\ sub_phase = "mode" /\ ~abort_req
    /\ ReturnErr("ws mode send failed")
    /\ UNCHANGED <<backoff, sleep_ms, writes, sub_i, sub_phase, ping, rx, first_err, by_token>>
    /\ UNCHANGED wsFixed /\ UNCHANGED others

\* read.next().await yields Ok(Message::Binary(bin)): the task is being polled
\* and runs the Binary arm without a further .await
RecvBinary ==
    /\ ws_pc = "read" /\ ~abort_req
    /\ \E bin \in Frames :
         rx' = [kind |-> "Binary", bin |-> bin, decoded |-> <<>>, calls |-> <<>>]
    /\ ws_pc' = "binary"
    /\ UNCHANGED <<backoff, sleep_ms, last_err, writes, sub_i, sub_phase, ping,
                   fail_streak, first_err, grown, by_token>>
    /\ UNCHANGED wsFixed /\ UNCHANGED others

\* read loop, Message::Binary arm: now_unix_ns, decode_binary_ticks, the
\* allow-set filter and update_tick for every kept tick, back to read.next().await
HandleBinary ==
    /\ ws_pc = "binary"
    /\ \E received_ns \in WsClock :
         LET ticks == decode_binary_ticks(rx.bin, received_ns)
             calls == CallsFor(allowed, ticks)
         IN /\ by_token' = ApplyTicks(by_token, calls)
            /\ rx' = [kind |-> "Binary", bin |-> rx.bin, decoded |-> ticks, calls |-> calls]
    /\ ws_pc' = "read"
    /\ UNCHANGED <<backoff, sleep_ms, last_err, writes, sub_i, sub_phase, ping,
                   fail_streak, first_err, grown>>
    /\ UNCHANGED wsFixed /\ UNCHANGED others

\* read loop, Message::Text / Message::Pong / any other message
RecvIgnored ==
    /\ ws_pc = "read" /\ ~abort_req
    /\ \E kind \in {"Text", "Pong", "Frame"} :
         rx' = [kind |-> kind, bin |-> <<>>, decoded |-> <<>>, calls |-> <<>>]
    /\ UNCHANGED <<ws_pc, backoff, sleep_ms, last_err, writes, sub_i, sub_phase, ping,
                   fail_streak, first_err, grown, by_token>>
    /\ UNCHANGED wsFixed /\ UNCHANGED others

PongsWritten == Len(SelectSeq(writes, LAMBDA m : m.a = "pong"))

\* read loop, Message::Ping arm up to write.send(Message::Pong(p)).await
RecvPing ==
    /\ ws_pc = "read" /\ ~abort_req
    /\ PongsWritten < MaxPongs
    /\ \E p \in PingPayloads :
         /\ ping' = Some(p)
         /\ rx' = [kind |-> "Ping", bin |-> p, decoded |-> <<>>, calls |-> <<>>]
    /\ ws_pc' = "pong"
    /\ UNCHANGED <<backoff, sleep_ms, last_err, writes, sub_i, sub_phase,
                   fail_streak, first_err, grown, by_token>>
    /\ UNCHANGED wsFixed /\ UNCHANGED others

SendPong ==
    /\ ws_pc = "pong" /\ ~abort_req
    /\ writes' = Append(writes, PongMsg(ping[1]))
    /\ ping' = None
    /\ ws_pc' = "read"
    /\ UNCHANGED <<backoff, sleep_ms, last_err, sub_i, sub_phase,
                   fail_streak, first_err, grown, rx, by_token>>
    /\ UNCHANGED wsFixed /\ UNCHANGED others

SendPongErr ==
    /\ ws_pc = "pong" /\ ~abort_req
    /\ ReturnErr("ws pong send failed")
    /\ ping' = None
    /\ UNCHANGED <<backoff, sleep_ms, writes, sub_i, sub_phase, rx, first_err, by_token>>
    /\ UNCHANGED wsFixed /\ UNCHANGED others

\* variant: the Close arm logs the frame and keeps reading
RecvClose_KeepReading ==
    /\ ws_pc = "read" /\ ~abort_req
    /\ rx' = [kind |-> "Close", bin |-> <<>>, decoded |-> <<>>, calls |-> <<>>]
    /\ UNCHANGED <<ws_pc, last_err, fail_streak, grown>>
    /\ UNCHANGED <<backoff, sleep_ms, writes, sub_i, sub_phase, ping, first_err, by_token>>
    /\ UNCHANGED wsFixed /\ UNCHANGED others

\* read loop, Message::Close arm: return Ok(())
RecvClose ==
    /\ ws_pc = "read" /\ ~abort_req
    /\ rx' = [kind |-> "Close", bin |-> <<>>, decoded |-> <<>>, calls |-> <<>>]
    /\ ReturnOk
    /\ UNCHANGED <<backoff, sleep_ms, writes, sub_i, sub_phase, ping, first_err, by_token>>
    /\ UNCHANGED wsFixed /\ UNCHANGED others

\* read.next() yields None: the while-let ends and run_once returns Ok(())
StreamEnd ==
    /\ ws_pc = "read" /\ ~abort_req
    /\ rx' = [kind |-> "End", bin |-> <<>>, decoded |-> <<>>, calls |-> <<>>]
    /\ ReturnOk
    /\ UNCHANGED <<backoff, sleep_ms, writes, sub_i, sub_phase, ping, first_err, by_token>>
    /\ UNCHANGED wsFixed /\ UNCHANGED others

\* read loop, Err(e) arm
RecvError ==
    /\ ws_pc = "read" /\ ~abort_req
    /\ rx' = [kind |-> "Error", bin |-> <<>>, decoded |-> <<>>, calls |-> <<>>]
    /\ ReturnErr("ws read error")
    /\ UNCHANGED <<backoff, sleep_ms, writes, sub_i, sub_phase, ping, first_err, by_token>>
    /\ UNCHANGED wsFixed /\ UNCHANGED others

\* run_forever, Ok(()) arm
HandleOk ==
    /\ ws_pc = "ret_ok"
    /\ grown' = backoff
    /\ backoff' = BackoffAfterOk(backoff)
    /\ ws_pc' = LoopNext
    /\ UNCHANGED <<sleep_ms, last_err, writes, sub_i, sub_phase, ping, fail_streak,
                   first_err, rx, by_token>>
    /\ UNCHANGED wsFixed /\ UNCHANGED others

\* run_forever, Err(e) arm up to sleep(backoff).await
HandleErr ==
    /\ ws_pc = "ret_err"
    /\ sleep_ms' = backoff
    /\ ws_pc' = ErrArmNext
    /\ UNCHANGED <<backoff, last_err, writes, sub_i, sub_phase, ping, fail_streak,
                   first_err, grown, rx, by_token>>
    /\ UNCHANGED wsFixed /\ UNCHANGED others

\* run_forever, Err(e) arm after the sleep
SleepDone ==
    /\ ws_pc = "sleep" /\ ~abort_req
    /\ backoff' = BackoffAfterErr(backoff)
    /\ last_err' = None
    /\ sleep_ms' = 0
    /\ grown' = 0
    /\ ws_pc' = LoopNext
    /\ UNCHANGED <<writes, sub_i, sub_phase, ping, fail_streak,
                   first_err, rx, by_token>>
    /\ UNCHANGED wsFixed /\ UNCHANGED others

\* the aborted task is dropped at the .await it is suspended in
WsCancel ==
    /\ abort_req /\ ws_pc \in SuspensionPoints
    /\ WsDropped
    /\ UNCHANGED abort_req /\ UNCHANGED others

WsStep ==
    \/ RunOnce \/ ConnectOk \/ ConnectErr
    \/ SendSubscribe \/ SendSubscribeErr \/ SendMode \/ SendModeErr
    \/ RecvBinary \/ HandleBinary \/ RecvIgnored \/ RecvPing \/ SendPong \/ SendPongErr
    \/ RecvClose \/ StreamEnd \/ RecvError
    \/ HandleOk \/ HandleErr \/ SleepDone \/ WsCancel

Next ==
    \/ Configure \/ LoadCreds \/ LoadCredsDbError \/ Preflight
    \/ SelectDbError \/ SelectAndSpawn \/ Shutdown \/ CtrlCFail
    \/ RunOnce \/ ConnectOk \/ ConnectErr
    \/ SendSubscribe \/ SendSubscribeErr \/ SendMode \/ SendModeErr
    \/ RecvBinary \/ HandleBinary \/ RecvIgnored \/ RecvPing \/ SendPong \/ SendPongErr
    \/ RecvClose \/ StreamEnd \/ RecvError
    \/ HandleOk \/ HandleErr \/ SleepDone \/ WsCancel

Spec == Init /\ [][Next]_vars

\* scheduling: the runtime keeps polling a task that can make progress, and
\* the backoff timer fires
LiveSpec ==
    /\ Spec
    /\ WF_vars(RunOnce)
    /\ WF_vars(HandleOk)
    /\ WF_vars(HandleErr)
    /\ WF_vars(SleepDone)
    /\ WF_vars(WsCancel)

(***************************************************************************)
(* Subscription specification: subscribe_full on token lists of every      *)
(* length 1..MaxTokens, starting right after a successful handshake        *)
(***************************************************************************)
\* the sorted, duplicate-free list run_ticker builds for k - 1 option contracts
TokensOfLen(k) == [i \in 1..k |-> IF i < k THEN CatalogTokens[1] + i - 1 ELSE NIFTY_INDEX_TOKEN]

\* the metas run_ticker seeds for that list, and the seeded store
RowsOfLen(k) == [i \in 1..(k - 1) |-> MetaRow(CatalogTokens[1] + i - 1, "NIFTY-OPT", "CE")]
StoreOfLen(k) ==
    [t \in AllowedOf(TokensOfLen(k)) |->
        TokenState_new(IF t = NIFTY_INDEX_TOKEN THEN MetasOf(<<>>)[1]
                       ELSE MetaRow(t, "NIFTY-OPT", "CE"))]

SessionStart(lens) ==
    /\ pc = "wait"
    /\ result = None
    /\ creds = Some([api_key |-> KeyPlain, access_token |-> Some(<<" ", "t", " ">>)])
    /\ preflights = 1
    /\ preflight_ok = Some(TRUE)
    /\ seeded = TRUE
    /\ stats_spawned = TRUE
    /\ \E k \in lens :
         /\ tokens = TokensOfLen(k)
         /\ selected = Some([expiry |-> IF k = 1 THEN None ELSE Some("2026-11-05"),
                             rows |-> RowsOfLen(k)])
         /\ by_token = StoreOfLen(k)
    /\ ApiVarsInit
    /\ ws_pc = "subscribe"
    /\ abort_req = FALSE
    /\ ws_key = KeyPlain
    /\ allowed = AllowedOf(tokens)
    /\ backoff = InitialBackoff
    /\ sleep_ms = 0
    /\ last_err = None
    /\ writes = <<>>
    /\ sub_i = 1
    /\ sub_phase = "subscribe"
    /\ ping = None
    /\ fail_streak = 0
    /\ first_err = Some("request built")
    /\ grown = 0
    /\ rx = NoRx

InitSubscribe == SessionStart(1..MaxTokens)

NextSubscribe == SendSubscribe \/ SendSubscribeErr \/ SendMode \/ SendModeErr

SpecSubscribe == InitSubscribe /\ [][NextSubscribe]_vars

(***************************************************************************)
(* Session specification: one run_once from the handshake to its return,   *)
(* on token lists of one, two and three chunks                             *)
(***************************************************************************)
SessionLens == {1, 2, CHUNK, CHUNK + 1, MaxTokens}

InitSession == SessionStart(SessionLens)

NextSession ==
    \/ SendSubscribe \/ SendSubscribeErr \/ SendMode \/ SendModeErr
    \/ RecvBinary \/ HandleBinary \/ RecvIgnored \/ RecvPing \/ SendPong \/ SendPongErr
    \/ RecvClose \/ StreamEnd \/ RecvError

SpecSession == InitSession /\ [][NextSession]_vars

(***************************************************************************)
(* Task specification: a KiteTickerWs built by new() with an empty or a     *)
(* non-empty token list over a seeded store, spawned and never aborted      *)
(***************************************************************************)
TaskLens == {1, 2}

InitTask ==
    /\ pc = "wait"
    /\ result = None
    /\ creds = Some([api_key |-> KeyPlain, access_token |-> Some(<<" ", "t", " ">>)])
    /\ preflights = 1
    /\ preflight_ok = Some(TRUE)
    /\ seeded = TRUE
    /\ stats_spawned = TRUE
    /\ \E k \in TaskLens :
         /\ tokens \in {<<>>, TokensOfLen(k)}
         /\ selected = Some([expiry |-> IF k = 1 THEN None ELSE Some("2026-11-05"),
                             rows |-> RowsOfLen(k)])
         /\ by_token = StoreOfLen(k)
    /\ ApiVarsInit
    /\ ws_pc = "run_once"
    /\ abort_req = FALSE
    /\ ws_key = KeyPlain
    /\ allowed = AllowedOf(tokens)
    /\ backoff = InitialBackoff
    /\ sleep_ms = 0
    /\ last_err = None
    /\ writes = <<>>
    /\ sub_i = 0
    /\ sub_phase = "subscribe"
    /\ ping = None
    /\ fail_streak = 0
    /\ first_err = None
    /\ grown = 0
    /\ rx = NoRx

NextTask ==
    \/ RunOnce \/ ConnectOk \/ ConnectErr
    \/ SendSubscribe \/ SendSubscribeErr \/ SendMode \/ SendModeErr
    \/ RecvBinary \/ HandleBinary \/ RecvIgnored \/ RecvPing \/ SendPong \/ SendPongErr
    \/ RecvClose \/ StreamEnd \/ RecvError
    \/ HandleOk \/ HandleErr \/ SleepDone

\* scheduling as in LiveSpec: the task is polled and the backoff timer fires
SpecTask ==
    /\ InitTask /\ [][NextTask]_vars
    /\ WF_vars(RunOnce)
    /\ WF_vars(HandleOk)
    /\ WF_vars(HandleErr)
    /\ WF_vars(SleepDone)

(***************************************************************************)
(* Store specification: the TickStore API called on a TickStore::default() *)
(***************************************************************************)
MetaA1 == MetaRow(OptA, "NIFTY25000CE", "CE")
MetaA2 == MetaRow(OptA, "NIFTY25000CE-OLD", "PE")
MetaB == MetaRow(OptB, "NIFTY25000PE", "PE")
StoreMetas == {MetaA1, MetaA2, MetaB}

RECURSIVE SeqsUpTo(_, _)
SeqsUpTo(S, n) ==
    IF n = 0 THEN {<<>>}
    ELSE SeqsUpTo(S, n - 1) \cup {Append(q, x) : q \in SeqsUpTo(S, n - 1), x \in S}

\* FULL-mode ticks as the decoder produces them, with depth, volume and open
\* interest: v = <<last_price in paise, volume, open interest>>
FullTick(tok, v, ns) == decode_packet(FullPacket(tok, v[1], v[2], v[3], 9990, 10010), ns)[1]

\* ticks for a token that was never seeded
StrayTicks == {Tick_new_ltp(Stray, Price(10000), 0), FullTick(Stray, <<10000, 10, 4>>, 0)}

StoreTicks ==
    {Tick_new_ltp(OptA, Price(10000), ns) : ns \in NsValues}
        \cup {FullTick(OptA, <<10000, 10, 4>>, 0)} \cup StrayTicks

\* TickStore::seed_meta called by a client of the store
StoreSeed ==
    /\ \E metas \in SeqsUpTo(StoreMetas, MaxMetas) :
         /\ by_token' = seed_meta(by_token, metas)
         /\ call' = [op |-> "seed_meta", arg |-> metas]
    /\ UNCHANGED <<ret, upd, locks>>
    /\ UNCHANGED rtVars /\ UNCHANGED wsVars

\* TickStore::update_tick called by a client of the store
StoreUpdate ==
    /\ \E tick \in StoreTicks :
         /\ by_token' = update_tick(by_token, tick)
         /\ call' = [op |-> "update_tick", arg |-> <<tick>>]
    /\ UNCHANGED <<ret, upd, locks>>
    /\ UNCHANGED rtVars /\ UNCHANGED wsVars

NextStore == StoreSeed \/ StoreUpdate

SpecStore == Init /\ [][NextStore]_vars

(***************************************************************************)
(* Concurrent specification: one writer thread in update_tick, reader      *)
(* threads in get_state.  DashMap::get_mut returns a RefMut that holds the *)
(* write lock of the entry's shard until it is dropped at the `return`;    *)
(* DashMap::get returns a Ref that holds the read lock while the state is  *)
(* cloned.  A lock is identified by the token of the entry it guards.      *)
(***************************************************************************)
\* variant: get() does not wait for the writer's RefMut
ReadLockFree_NoWait(t) == TRUE

\* by_token.get(&t) can take the read lock
ReadLockFree(t) == locks.writer # Some(t)

\* by_token.get_mut(&t) / insert(t, _) can take the write lock
WriteLockFree(t) == locks.writer = None /\ \A r \in Readers : locks.readers[r] # Some(t)

ConcTicks ==
    {Tick_new_ltp(OptA, Price(10000), 0), FullTick(OptA, <<10100, 10, 4>>, NsStep),
     Tick_new_ltp(Stray, Price(10000), 0)}
ConcTokens == {OptA, Stray}

\* seed_meta before the writer and the readers touch the store
ConcSeed ==
    /\ by_token = EmptyStore /\ upd = None /\ call = NoCall
    /\ by_token' = seed_meta(by_token, <<MetaA1>>)
    /\ call' = [op |-> "seed_meta", arg |-> <<MetaA1>>]
    /\ UNCHANGED <<ret, upd, locks>>
    /\ UNCHANGED rtVars /\ UNCHANGED wsVars

\* the meta another thread seeds for the token the feed may deliver first
MetaS == MetaRow(Stray, "NIFTY25100CE", "CE")

\* seed_meta on another thread while update_tick may be between its lookup and
\* its insert: by_token.entry(token).or_insert_with(..)
ConcSeedLate ==
    /\ by_token # EmptyStore /\ Stray \notin DOMAIN by_token
    /\ WriteLockFree(Stray)
    /\ by_token' = seed_meta(by_token, <<MetaS>>)
    /\ call' = [op |-> "seed_meta", arg |-> <<MetaS>>]
    /\ UNCHANGED <<ret, upd, locks>>
    /\ UNCHANGED rtVars /\ UNCHANGED wsVars

\* update_tick: self.by_token.get_mut(&token)
UpdBegin ==
    /\ upd = None
    /\ \E tick \in ConcTicks :
         LET t == tick.instrument_token IN
         /\ WriteLockFree(t)
         /\ call' = [op |-> "update_tick", arg |-> <<tick>>]
         /\ IF t \in DOMAIN by_token
            THEN /\ upd' = Some([tick |-> tick, at |-> "roc", before |-> Some(by_token[t])])
                 /\ locks' = [locks EXCEPT !.writer = Some(t)]
            ELSE /\ upd' = Some([tick |-> tick, at |-> "insert", before |-> None])
                 /\ locks' = locks
    /\ UNCHANGED <<by_token, ret>>
    /\ UNCHANGED rtVars /\ UNCHANGED wsVars

\* update_tick: the ROC block, under the RefMut
UpdRoc ==
    /\ IsSome(upd) /\ upd[1].at = "roc"
    /\ LET tick == upd[1].tick
           t == tick.instrument_token
       IN by_token' = [by_token EXCEPT ![t].derived =
                          IF IsSome(by_token[t].last_tick)
                          THEN RocUpdate(@, by_token[t].last_tick[1], tick)
                          ELSE @]
    /\ upd' = Some([upd[1] EXCEPT !.at = "spread"])
    /\ UNCHANGED <<call, ret, locks>>
    /\ UNCHANGED rtVars /\ UNCHANGED wsVars

\* update_tick: the spread block, under the RefMut
UpdSpread ==
    /\ IsSome(upd) /\ upd[1].at = "spread"
    /\ LET tick == upd[1].tick
           t == tick.instrument_token
       IN by_token' = [by_token EXCEPT ![t].derived = SpreadUpdate(@, tick)]
    /\ upd' = Some([upd[1] EXCEPT !.at = "store"])
    /\ UNCHANGED <<call, ret, locks>>
    /\ UNCHANGED rtVars /\ UNCHANGED wsVars

\* update_tick: state.last_tick = Some(tick); return (the RefMut is dropped)
UpdStore ==
    /\ IsSome(upd) /\ upd[1].at = "store"
    /\ LET tick == upd[1].tick
           t == tick.instrument_token
       IN by_token' = [by_token EXCEPT ![t].last_tick = Some(tick)]
    /\ upd' = None
    /\ locks' = [locks EXCEPT !.writer = None]
    /\ UNCHANGED <<call, ret>>
    /\ UNCHANGED rtVars /\ UNCHANGED wsVars

\* update_tick: the fallback for a token without a state, by_token.insert(token, state)
UpdInsert ==
    /\ IsSome(upd) /\ upd[1].at = "insert"
    /\ LET tick == upd[1].tick
           t == tick.instrument_token
       IN /\ WriteLockFree(t)
          /\ by_token' = (t :> [TokenState_new(TokenMeta_new(t, "", "UNKNOWN", None, None))
                                   EXCEPT !.last_tick = Some(tick)]) @@ by_token
    /\ upd' = None
    /\ UNCHANGED <<call, ret, locks>>
    /\ UNCHANGED rtVars /\ UNCHANGED wsVars

\* get_state: self.by_token.get(&instrument_token)
GetBegin(r) ==
    /\ locks.readers[r] = None
    /\ \E t \in ConcTokens :
         /\ ReadLockFree(t)
         /\ locks' = [locks EXCEPT !.readers[r] = Some(t)]
    /\ UNCHANGED <<by_token, call, ret, upd>>
    /\ UNCHANGED rtVars /\ UNCHANGED wsVars

\* get_state: .map(|v| v.clone()); the Ref is dropped
GetClone(r) ==
    /\ locks.readers[r] # None
    /\ LET t == locks.readers[r][1] IN
         /\ ret' = get_state(by_token, t)
         /\ call' = [op |-> "get_state", arg |-> <<t>>]
    /\ locks' = [locks EXCEPT !.readers[r] = None]
    /\ UNCHANGED <<by_token, upd>>
    /\ UNCHANGED rtVars /\ UNCHANGED wsVars

NextConc ==
    \/ ConcSeed
    \/ UpdBegin \/ UpdRoc \/ UpdSpread \/ UpdStore \/ UpdInsert
    \/ \E r \in Readers : GetBegin(r) \/ GetClone(r)

SpecConc == Init /\ [][NextConc]_vars

\* the writer and the readers with a second thread that seeds a late token
NextSeedRace ==
    \/ ConcSeed \/ ConcSeedLate
    \/ UpdBegin \/ UpdRoc \/ UpdSpread \/ UpdStore \/ UpdInsert
    \/ \E r \in Readers : GetBegin(r) \/ GetClone(r)

SpecSeedRace == Init /\ [][NextSeedRace]_vars

(***************************************************************************)
(* Metrics specification: a store seeded with one contract, then fed with  *)
(* LTP and FULL ticks of that contract at wall-clock readings in any order *)
(***************************************************************************)
\* QUOTE-mode tick as the decoder produces it: volume, but no open interest and
\* no depth; v = <<last_price in paise, volume>>
QuoteTick(tok, v, ns) == decode_packet(QuotePacket(tok, v[1], v[2], v[1]), ns)[1]

MetricTicks ==
    UNION {{Tick_new_ltp(OptA, Price(10000), ns),
            QuoteTick(OptA, <<10000, 15>>, ns),
            FullTick(OptA, <<10100, 10, 4>>, ns),
            FullTick(OptA, <<0, 12, 6>>, ns)} : ns \in NsValues}

MetricsUpdate ==
    /\ by_token # EmptyStore
    /\ \E tick \in MetricTicks :
         /\ by_token' = update_tick(by_token, tick)
         /\ call' = [op |-> "update_tick", arg |-> <<tick>>]
    /\ UNCHANGED <<ret, upd, locks>>
    /\ UNCHANGED rtVars /\ UNCHANGED wsVars

NextMetrics == ConcSeed \/ MetricsUpdate

SpecMetrics == Init /\ [][NextMetrics]_vars

(***************************************************************************)
(* Decoder specification: decode_binary_ticks applied to frames built from *)
(* packets of every known length and of unknown lengths, with a header     *)
(* count that may disagree with the packets, cut at every byte offset      *)
(***************************************************************************)
ShortPacket == I32(OptB)                             \* 4 bytes: shorter than any known packet
OddPacket == I32(OptB) \o I32(10000) \o I32(7)       \* 12 bytes: no known length
DecPackets ==
    {LtpPacket(OptA, 10000), IndexPacket(NIFTY_INDEX_TOKEN, 2500000, 2490000),
     QuotePacket(OptB, 10100, 10, 10000), FullPacket(OptA, 10000, 10, 4, 9990, 10010),
     ShortPacket, OddPacket}

\* a frame whose header announces `count` packets
FrameWith(count, packets) == U16(count) \o PacketBytes(packets)

\* header counts tried for a list of n packets
CountsFor(n) == {c \in {n - 1, n, n + 1} : c >= 0}

\* arg = <<packets, header count, number of bytes received, received_ns>>
PayloadOf(arg) == SubSeq(FrameWith(arg[2], arg[1]), 1, arg[3])

InitDecode ==
    /\ pc = "config" /\ result = None /\ creds = None /\ selected = None
    /\ preflights = 0 /\ preflight_ok = None /\ seeded = FALSE /\ stats_spawned = FALSE
    /\ by_token = EmptyStore
    /\ WsVarsInit
    /\ \E pk \in SeqsUpTo(DecPackets, MaxPackets) :
         \E c \in CountsFor(Len(pk)) :
           \E k \in 0..Len(FrameWith(c, pk)) :
             call = [op |-> "input", arg |-> <<pk, c, k, NsStep>>]
    /\ ret = None /\ upd = None /\ locks = NoLocks

\* decode_binary_ticks(&payload, received_ns)
Decode ==
    /\ call.op = "input"
    /\ call' = [call EXCEPT !.op = "decode_binary_ticks"]
    /\ ret' = decode_binary_ticks(PayloadOf(call.arg), call.arg[4])
    /\ UNCHANGED <<by_token, upd, locks>>
    /\ UNCHANGED rtVars /\ UNCHANGED wsVars

NextDecode == Decode

SpecDecode == InitDecode /\ [][NextDecode]_vars

(***************************************************************************)
(* Packet specification: decode_packet applied to single packets of every  *)
(* known length and of unknown lengths, built from wire integers that are  *)
(* negative, zero and positive and differ from field to field              *)
(***************************************************************************)
\* number of 4-byte fields before the depth: 2, 7, 11 and 16 give the 8-, 28-, 44-
\* and 184-byte packets, the others give lengths the decoder does not know
PacketInts == {1, 2, 3, 7, 10, 11, 16}

\* field i of a packet carries WireBase + i when it is a price
WireBases == {0 - 1011, 0 - 11, 0 - 6, 0 - 2, 0, 9990}

\* positions of the i32 price fields: all but the token in the index packet;
\* last_price, average price, open, high, low, close in the others
SignedAt(n) == IF n = 7 THEN 2..7 ELSE {2, 4, 8, 9, 10, 11}

WireInts(n, b) ==
    [i \in 1..n |-> IF i = 1 THEN OptA ELSE IF i \in SignedAt(n) THEN b + i ELSE i]

\* prices of the 5 buy and 5 sell depth levels of a 184-byte packet
DepthPaise(n, b) == IF n = 16 THEN [j \in 1..10 |-> b + 20 + j] ELSE <<>>

RECURSIVE Ints32(_)
Ints32(w) == IF w = <<>> THEN <<>> ELSE I32(Head(w)) \o Ints32(Tail(w))

RECURSIVE LevelBytes(_, _)
LevelBytes(paise, j) ==
    IF j > Len(paise) THEN <<>>
    ELSE DepthBytes(100 + j, paise[j], j) \o LevelBytes(paise, j + 1)

WirePacket(n, b) == Ints32(WireInts(n, b)) \o LevelBytes(DepthPaise(n, b), 1)

\* arg = <<packet, wire integers, wire depth prices, received_ns>>
InitPacket ==
    /\ pc = "config" /\ result = None /\ creds = None /\ selected = None
    /\ preflights = 0 /\ preflight_ok = None /\ seeded = FALSE /\ stats_spawned = FALSE
    /\ by_token = EmptyStore
    /\ WsVarsInit
    /\ \E n \in PacketInts : \E b \in WireBases : \E ns \in WsClock :
         call = [op |-> "packet",
                 arg |-> <<WirePacket(n, b), WireInts(n, b), DepthPaise(n, b), ns>>]
    /\ ret = None /\ upd = None /\ locks = NoLocks

\* decode_packet(packet, received_ns)
DecodePacket ==
    /\ call.op = "packet"
    /\ call' = [call EXCEPT !.op = "decode_packet"]
    /\ ret' = decode_packet(call.arg[1], call.arg[4])
    /\ UNCHANGED <<by_token, upd, locks>>
    /\ UNCHANGED rtVars /\ UNCHANGED wsVars

NextPacket == DecodePacket

SpecPacket == InitPacket /\ [][NextPacket]_vars

(***************************************************************************)
(* Selector specification: fetch_nifty_current_week_option_meta over a     *)
(* catalog (the rows of trade.instrument).  Dates are day numbers relative *)
(* to CURRENT_DATE; the text form of a date is its yyyy-mm-dd string.      *)
(***************************************************************************)
CURRENT_DATE == 0
ExpiryDays == {0 - 1, 0, 1, 14, 15}

\* expiry::date::text for CURRENT_DATE = 2026-11-04
DateText(d) ==
    CASE d = 0 - 1 -> "2026-11-03"
      [] d = 0 -> "2026-11-04"
      [] d = 1 -> "2026-11-05"
      [] d = 14 -> "2026-11-18"
      [] d = 15 -> "2026-11-19"

\* $1::text::date
ParseDate(text) == CHOOSE d \in ExpiryDays : DateText(d) = text

\* rows of trade.instrument without their token: NIFTY options at each expiry and
\* without expiry, and rows that differ from an option in one filtered column
Kind(exchange, instrument_type, name, expiry) ==
    [exchange |-> exchange, instrument_type |-> instrument_type, name |-> name,
     expiry |-> expiry, tradingsymbol |-> "NIFTY-OPT", strike |-> Some(F64(25000))]
RowKinds ==
    {Kind("NFO", "CE", "NIFTY", Some(e)) : e \in ExpiryDays}
        \cup {Kind("NFO", "CE", "NIFTY", None), Kind("NFO", "PE", "NIFTY", Some(1)),
              Kind("NFO", "FUT", "NIFTY", Some(0)), Kind("BFO", "CE", "NIFTY", Some(0)),
              Kind("NFO", "CE", "BANKNIFTY", Some(0))}

\* instrument_token is the key of trade.instrument: one row per token
CatalogOf(kinds) ==
    {[instrument_token |-> CatalogTokens[1] + i - 1, exchange |-> kinds[i].exchange,
      instrument_type |-> kinds[i].instrument_type, name |-> kinds[i].name,
      expiry |-> kinds[i].expiry, tradingsymbol |-> kinds[i].tradingsymbol,
      strike |-> kinds[i].strike] : i \in 1..Len(kinds)}

WindowDays == {0, 1, 7, 14, 20}

\* variant: the window is used as given
ClampDays_NoClamp(expiry_days) == expiry_days

\* expiry_days.clamp(1, 14)
ClampDays(expiry_days) ==
    IF expiry_days < 1 THEN 1 ELSE IF expiry_days > 14 THEN 14 ELSE expiry_days

\* WHERE exchange = 'NFO' AND instrument_type IN ('CE','PE') AND name = 'NIFTY'
IsNiftyOption(r) ==
    r.exchange = "NFO" /\ r.instrument_type \in {"CE", "PE"} /\ r.name = "NIFTY"

\* SELECT (MIN(expiry)::date)::text ... AND expiry >= CURRENT_DATE
\*   AND expiry <= CURRENT_DATE + $1 days; NULL when no row matches
MinExpiryText(catalog, days) ==
    LET es == {r.expiry[1] : r \in {x \in catalog :
                    /\ IsNiftyOption(x) /\ IsSome(x.expiry)
                    /\ x.expiry[1] >= CURRENT_DATE
                    /\ x.expiry[1] <= CURRENT_DATE + days}}
    IN IF es = {} THEN None
       ELSE Some(DateText(CHOOSE e \in es : \A f \in es : e <= f))

\* ORDER BY instrument_token
RECURSIVE OrderByToken(_)
OrderByToken(rows) ==
    IF rows = {} THEN <<>>
    ELSE LET first == CHOOSE r \in rows :
                          \A q \in rows : r.instrument_token <= q.instrument_token
         IN <<first>> \o OrderByToken(rows \ {first})

\* ... AND expiry = $1::text::date ORDER BY instrument_token
RowsAtExpiry(catalog, text) ==
    OrderByToken({r \in catalog :
        IsNiftyOption(r) /\ IsSome(r.expiry) /\ r.expiry[1] = ParseDate(text)})

fetch_nifty_current_week_option_tokens(catalog, expiry_days) ==
    LET days == ClampDays(expiry_days)
        expiry == MinExpiryText(catalog, days)
    IN IF expiry = None \/ expiry = Some("") THEN [expiry |-> None, tokens |-> <<>>]
       ELSE LET rows == RowsAtExpiry(catalog, expiry[1])
            IN [expiry |-> expiry,
                tokens |-> [i \in 1..Len(rows) |-> rows[i].instrument_token]]

\* InstrumentMetaRow of a selected row; expiry::text, strike::float8
InstrumentMetaRow(r) ==
    [instrument_token |-> r.instrument_token, tradingsymbol |-> r.tradingsymbol,
     instrument_type |-> r.instrument_type,
     expiry |-> IF IsSome(r.expiry) THEN Some(DateText(r.expiry[1])) ELSE None,
     strike |-> r.strike]

fetch_nifty_current_week_option_meta(catalog, expiry_days) ==
    LET expiry == fetch_nifty_current_week_option_tokens(catalog, expiry_days).expiry
    IN IF expiry = None THEN [expiry |-> None, rows |-> <<>>]
       ELSE LET rows == RowsAtExpiry(catalog, expiry[1])
            IN [expiry |-> expiry,
                rows |-> [i \in 1..Len(rows) |-> InstrumentMetaRow(rows[i])]]

\* arg = <<catalog, expiry_days>>
InitSelector ==
    /\ pc = "config" /\ result = None /\ creds = None /\ selected = None
    /\ preflights = 0 /\ preflight_ok = None /\ seeded = FALSE /\ stats_spawned = FALSE
    /\ by_token = EmptyStore
    /\ WsVarsInit
    /\ \E kinds \in SeqsUpTo(RowKinds, MaxCatalog), expiry_days \in WindowDays :
         call = [op |-> "input", arg |-> <<CatalogOf(kinds), expiry_days>>]
    /\ ret = None /\ upd = None /\ locks = NoLocks

Select ==
    /\ call.op = "input"
    /\ call' = [call EXCEPT !.op = "fetch_nifty_current_week_option_meta"]
    /\ ret' = Some(fetch_nifty_current_week_option_meta(call.arg[1], call.arg[2]))
    /\ UNCHANGED <<by_token, upd, locks>>
    /\ UNCHANGED rtVars /\ UNCHANGED wsVars

NextSelector == Select

SpecSelector == InitSelector /\ [][NextSelector]_vars

(***************************************************************************)
(* Properties                                                              *)
(***************************************************************************)
IsErr(res) == IsSome(res) /\ res # Some("ok")
WsRunning == ws_pc \notin {"none", "aborted"}

SleepSchedule == <<250, 500, 1000, 2000, 4000, 8000, 16000, 30000>>
ExpectedSleep(k) == IF k <= Len(SleepSchedule) THEN SleepSchedule[k] ELSE 30000

\* C1: while the WS task runs, 250ms <= backoff <= 30s, and the k-th consecutive
\* failure sleeps the k-th duration of 250ms, 500ms, 1s, 2s, 4s, 8s, 16s, 30s, 30s, ...
C1_BackoffSchedule ==
    WsRunning =>
        /\ 250 <= backoff /\ backoff <= 30000
        /\ ws_pc = "sleep" => sleep_ms = ExpectedSleep(fail_streak)

\* the ninth consecutive failure sleeps 30s for the second time
C1_Witness == ws_pc = "sleep" /\ fail_streak >= 9 /\ sleep_ms = 30000

\* C2: after a clean exit of run_once the supervisor calls run_once again with
\* backoff = 250ms, and a failure that directly follows sleeps exactly 250ms
C2_CleanExitResets ==
    grown > 0 =>
        /\ ws_pc \in {"run_once", "connect", "ret_err", "sleep"}
        /\ backoff = 250
        /\ ws_pc = "sleep" => sleep_ms = 250 /\ fail_streak = 1

\* a clean exit with the backoff at its cap, followed by a failure
C2_Witness == ws_pc = "sleep" /\ grown = 30000 /\ sleep_ms = 250

\* C3: after every outcome of run_once, run_once is called again unless the
\* task is aborted from outside
C3_SupervisorNeverExits ==
    (ws_pc \in {"ret_ok", "ret_err"}) ~> (ws_pc = "run_once" \/ abort_req)

\* run_once is called again after two failures in a row
C3_Witness == ws_pc = "run_once" /\ fail_streak = 2 /\ ~abort_req

\* C4 (as claimed): after the selector returned (None, []) no WS task exists and
\* run_ticker has returned an error
C4_Claim_NoSubscriptionRefused ==
    (IsSome(selected) /\ selected[1].expiry = None /\ selected[1].rows = <<>>) =>
        (ws_pc = "none" /\ IsErr(result))

BlankToken(access_token) ==
    access_token = None \/ \A i \in 1..Len(access_token[1]) : access_token[1][i] = " "

\* C5: once the credential lookup is over, a missing row or a missing, empty or
\* whitespace-only access_token means run_ticker has returned an error with the
\* store unseeded and neither the WS task nor the stats task spawned
C5_MissingCredentials ==
    (pc \notin {"config", "creds"} /\ (creds = None \/ BlankToken(creds[1].access_token))) =>
        /\ pc = "done" /\ IsErr(result)
        /\ ~seeded /\ DOMAIN by_token = {}
        /\ ws_pc = "none" /\ ~stats_spawned

\* a row whose access_token is a single blank
C5_Witness ==
    pc = "done" /\ IsSome(creds) /\ creds[1].access_token = Some(<<" ">>) /\ IsErr(result)

\* C6 (as claimed): when the first run_once fails to build the request, the WS task
\* does not back off and retry, and the process does not end with exit code 0
C6_Claim_BadUrlSurfaced ==
    first_err = Some("ws request build failed") =>
        /\ ws_pc # "sleep" /\ fail_streak <= 1
        /\ pc = "done" => ExitCode(result) # 0

RuntimeErrs ==
    {"ws connect failed", "ws subscribe send failed", "ws mode send failed",
     "ws pong send failed", "ws read error"}
RuntimeErr == IsSome(last_err) /\ last_err[1] \in RuntimeErrs

\* C7: a runtime WS error leaves run_ticker waiting, is followed by a sleep of
\* the current backoff and then, unless the task is aborted, by a new connection attempt
C7_RuntimeErrorsRetried ==
    /\ [](RuntimeErr /\ ~abort_req => pc = "wait" /\ result = None /\ ws_pc \in {"ret_err", "sleep"})
    /\ (RuntimeErr /\ ws_pc = "ret_err") ~> (RuntimeErr /\ ws_pc = "sleep" /\ sleep_ms = backoff)
    /\ (RuntimeErr /\ ws_pc = "sleep") ~> (ws_pc = "connect" \/ abort_req)

\* the task sleeps after a failed Pong send
C7_Witness == ws_pc = "sleep" /\ last_err = Some("ws pong send failed") /\ ~abort_req

CeilDiv(k, c) == (k + c - 1) \div c

RECURSIVE ConcatChunks(_, _)
ConcatChunks(ws, n) ==
    IF n = 0 THEN <<>> ELSE ConcatChunks(ws, n - 1) \o ws[2 * n - 1].v

\* C8: when subscribe_full has succeeded for K tokens, the connection carries
\* ceil(K/300) subscribe and ceil(K/300) mode messages, alternating, each pair with
\* the same chunk of 1..300 tokens, and the chunks concatenated give the token list
C8_SubscriptionChunking ==
    (ws_pc = "read") =>
        LET n == CeilDiv(Len(tokens), 300) IN
        /\ Len(writes) = 2 * n
        /\ \A i \in 1..n :
             /\ writes[2 * i - 1].a = "subscribe"
             /\ writes[2 * i].a = "mode" /\ writes[2 * i].mode = "full"
             /\ writes[2 * i].v = writes[2 * i - 1].v
             /\ Len(writes[2 * i].v) >= 1 /\ Len(writes[2 * i].v) <= 300
        /\ ConcatChunks(writes, n) = tokens

\* 601 tokens are sent as three chunks
C8_Witness == ws_pc = "read" /\ Len(tokens) = 601 /\ Len(writes) = 6

InTokenList(t) == \E i \in 1..Len(tokens) : tokens[i] = t.instrument_token

\* C9: the ticks of a binary frame handed to update_tick are exactly the decoded
\* ticks whose token is in the token list given at construction; the store changes
\* by exactly those calls, and states of other tokens are neither created nor changed
C9_AllowSetFilter ==
    /\ [](rx.kind = "Binary" => rx.calls = SelectSeq(rx.decoded, InTokenList))
    /\ [][(ws_pc = "binary" /\ ws_pc' = "read" /\ rx'.kind = "Binary") =>
            /\ by_token' = ApplyTicks(by_token, SelectSeq(rx'.decoded, InTokenList))
            /\ \A i \in 1..Len(rx'.decoded) :
                 LET tok == rx'.decoded[i].instrument_token IN
                 ~InTokenList(rx'.decoded[i]) =>
                     /\ tok \in DOMAIN by_token' <=> tok \in DOMAIN by_token
                     /\ tok \in DOMAIN by_token => by_token'[tok] = by_token[tok]]_vars

\* a frame with one subscribed and one stray token: one call, no state for the stray
C9_Witness ==
    /\ rx.kind = "Binary" /\ Len(rx.decoded) = 3 /\ Len(rx.calls) = 2
    /\ Stray \notin DOMAIN by_token
    /\ IsSome(by_token[OptA].last_tick)

FirstMetaFor(metas, t) ==
    metas[CHOOSE i \in 1..Len(metas) :
            /\ metas[i].instrument_token = t
            /\ \A j \in 1..(i - 1) : metas[j].instrument_token # t]

\* C10: seed_meta(metas) keeps every present TokenState as it is, adds for each
\* absent token a state with the first meta listed for it, no last_tick and no
\* derived metric, and seeding the same metas again changes nothing
C10_SeedMeta ==
    [][call'.op = "seed_meta" =>
        LET metas == call'.arg
            toks == {metas[i].instrument_token : i \in 1..Len(metas)}
        IN
        /\ DOMAIN by_token' = DOMAIN by_token \cup toks
        /\ \A t \in DOMAIN by_token : by_token'[t] = by_token[t]
        /\ \A t \in toks \ DOMAIN by_token :
             by_token'[t] =
                [meta |-> FirstMetaFor(metas, t),
                 last_tick |-> None,
                 derived |-> [best_bid |-> None, best_ask |-> None, spread |-> None,
                              spread_bps |-> None, price_roc_per_s |-> None,
                              oi_roc_per_s |-> None, vol_roc_per_s |-> None]]
        /\ seed_meta(by_token', metas) = by_token']_vars

\* a token seeded earlier and ticked since is listed twice, with other metas first
C10_Witness ==
    /\ call.op = "seed_meta" /\ call.arg = <<MetaA2, MetaA1>>
    /\ OptA \in DOMAIN by_token
    /\ by_token[OptA].meta = MetaA1 /\ IsSome(by_token[OptA].last_tick)

AllDerivedNone(d) ==
    /\ d.best_bid = None /\ d.best_ask = None /\ d.spread = None /\ d.spread_bps = None
    /\ d.price_roc_per_s = None /\ d.oi_roc_per_s = None /\ d.vol_roc_per_s = None

\* C11: update_tick for a token without a TokenState creates one with placeholder
\* metadata (instrument_type "UNKNOWN", empty tradingsymbol, no expiry, no strike),
\* stores the tick as last_tick and leaves all seven derived metrics None, also
\* when the tick carries depth; every other entry is unchanged, so a store seeded
\* with {A, B} holds exactly three entries after a tick for a third token.
C11_UnknownTokenUpsert ==
    [][(call'.op = "update_tick" /\ call'.arg[1].instrument_token \notin DOMAIN by_token) =>
        LET tick == call'.arg[1]
            t == tick.instrument_token
        IN
        /\ DOMAIN by_token' = DOMAIN by_token \cup {t}
        /\ by_token'[t].meta.instrument_token = t
        /\ by_token'[t].meta.instrument_type = "UNKNOWN"
        /\ by_token'[t].meta.tradingsymbol = ""
        /\ by_token'[t].meta.expiry = None
        /\ by_token'[t].meta.strike = None
        /\ by_token'[t].last_tick = Some(tick)
        /\ AllDerivedNone(by_token'[t].derived)
        /\ \A u \in DOMAIN by_token : by_token'[u] = by_token[u]
        /\ (DOMAIN by_token = {OptA, OptB} => len(by_token') = 3)]_vars

\* seeded {A, B}, then a FULL tick with depth for a third token
C11_Witness ==
    /\ call.op = "update_tick" /\ call.arg[1].instrument_token = Stray
    /\ IsSome(call.arg[1].depth)
    /\ DOMAIN by_token = {OptA, OptB, Stray}
    /\ by_token[Stray].meta.instrument_type = "UNKNOWN"
    /\ by_token[Stray].last_tick = Some(call.arg[1])
    /\ by_token[OptA].last_tick = None /\ by_token[OptB].last_tick = None

\* the store as it was before the update_tick in progress touched it
StoreBefore ==
    IF IsSome(upd) /\ IsSome(upd[1].before)
    THEN [by_token EXCEPT ![upd[1].tick.instrument_token] = upd[1].before[1]]
    ELSE by_token

\* the states of token t at the boundaries of the update_tick in progress, if any
BoundaryStates(t) ==
    IF IsSome(upd) /\ upd[1].tick.instrument_token = t
    THEN {get_state(StoreBefore, t), get_state(update_tick(StoreBefore, upd[1].tick), t)}
    ELSE {get_state(by_token, t)}

\* C12: with one writer in update_tick and concurrent readers in get_state, every
\* snapshot a reader obtains is the TokenState as it was entirely before or
\* entirely after an update_tick, never the derived metrics of one update with
\* the last_tick of another; a completed update_tick has made exactly the change
\* of the whole call.
C12_NoTornSnapshot ==
    [][/\ \A r \in Readers :
            (locks.readers[r] # None /\ locks'.readers[r] = None) =>
                ret' \in BoundaryStates(locks.readers[r][1])
       /\ (IsSome(upd) /\ upd' = None) =>
                by_token' = update_tick(StoreBefore, upd[1].tick)]_vars

\* a reader returned the state of the FULL tick, ROC and spread included, while the
\* other reader holds its Ref
C12_Witness ==
    /\ call.op = "get_state" /\ IsSome(ret)
    /\ IsSome(ret[1].last_tick) /\ IsSome(ret[1].last_tick[1].depth)
    /\ IsSome(ret[1].derived.spread_bps) /\ IsSome(ret[1].derived.price_roc_per_s)
    /\ ret = get_state(by_token, OptA)
    /\ \E r \in Readers : locks.readers[r] # None

IsPrefix(a, b) == Len(a) <= Len(b) /\ SubSeq(b, 1, Len(a)) = a

\* byte offset in the frame just after the i-th packet
RECURSIVE PacketEnd(_, _)
PacketEnd(pk, i) == IF i = 0 THEN 2 ELSE PacketEnd(pk, i - 1) + 2 + Len(pk[i])

\* number of announced packets that lie entirely within the first k bytes
CompletePackets(pk, c, k) ==
    Cardinality({i \in 1..Min(c, Len(pk)) : PacketEnd(pk, i) <= k})

KnownLengths == {8, 28, 44, 184}
KnownOnly(pk) == SelectSeq(pk, LAMBDA p : Len(p) \in KnownLengths)
Decoded == call.op = "decode_binary_ticks"
WholeFrame ==
    /\ call.arg[2] = Len(call.arg[1])
    /\ call.arg[3] = Len(FrameWith(call.arg[2], call.arg[1]))

\* C13: for every frame and every byte offset k, decode_binary_ticks on the first k
\* bytes returns, without panicking, a prefix of the ticks it returns for the
\* whole frame: the ticks of the packets that lie entirely within the k bytes.
C13_TruncationPrefix ==
    Decoded =>
        LET pk == call.arg[1]
            c == call.arg[2]
            k == call.arg[3]
            ns == call.arg[4]
        IN /\ \A i \in 1..Len(ret) : "panic" \notin DOMAIN ret[i]
           /\ IsPrefix(ret, decode_binary_ticks(FrameWith(c, pk), ns))
           /\ ret = decode_binary_ticks(FrameOf(SubSeq(pk, 1, CompletePackets(pk, c, k))), ns)

\* a frame of a quote and a full packet cut in the middle of the full packet
C13_Witness ==
    /\ Decoded
    /\ Len(call.arg[1]) = 2 /\ Len(call.arg[1][1]) = 44 /\ Len(call.arg[1][2]) = 184
    /\ call.arg[2] = 2 /\ call.arg[3] = 150
    /\ Len(ret) = 1 /\ ret[1].instrument_token = OptB

\* C14: a complete packet whose length is not 8, 28, 44 or 184 produces no tick and
\* is consumed in full: the frame decodes to the ticks of the frame without it.
C14_UnknownLengthSkipped ==
    (Decoded /\ WholeFrame) =>
        ret = decode_binary_ticks(FrameOf(KnownOnly(call.arg[1])), call.arg[4])

\* a 12-byte packet followed by a full packet: one tick, of the full packet
C14_Witness ==
    /\ Decoded /\ WholeFrame
    /\ call.arg[1] = <<OddPacket, FullPacket(OptA, 10000, 10, 4, 9990, 10010)>>
    /\ Len(ret) = 1 /\ ret[1].mode = "Full"

\* C15: a frame whose header count equals its number of packets, all of lengths
\* 8, 28, 44 or 184 in any order, decodes to one tick per packet, in packet order,
\* each with the token of its packet and the received_ns of the call.
C15_OneTickPerPacket ==
    (Decoded /\ WholeFrame /\ KnownOnly(call.arg[1]) = call.arg[1]) =>
        /\ Len(ret) = Len(call.arg[1])
        /\ \A i \in 1..Len(ret) :
             /\ I32(ret[i].instrument_token) = SubSeq(call.arg[1][i], 1, 4)
             /\ ret[i].received_ns = call.arg[4]

\* an index packet followed by an LTP packet, received at a non-zero time
C15_Witness ==
    /\ Decoded /\ WholeFrame
    /\ Len(call.arg[1]) = 2 /\ Len(call.arg[1][1]) = 28 /\ Len(call.arg[1][2]) = 8
    /\ call.arg[4] = NsStep
    /\ Len(ret) = 2
    /\ ret[1].instrument_token = NIFTY_INDEX_TOKEN /\ ret[2].instrument_token = OptA

\* C16 (as claimed): for every token, derived.spread_bps is Some exactly when the
\* stored last_tick has last_price > 0 and carries a FULL-mode depth.
C16_Claim_SpreadBpsIffDepth ==
    \A t \in DOMAIN by_token :
        IsSome(by_token[t].derived.spread_bps) <=>
            /\ IsSome(by_token[t].last_tick)
            /\ RPos(by_token[t].last_tick[1].last_price)
            /\ IsSome(by_token[t].last_tick[1].depth)

\* C17: a TokenState whose last_tick is None has all seven derived metrics None.
C17_NoTickNoMetrics ==
    \A t \in DOMAIN by_token :
        by_token[t].last_tick = None => AllDerivedNone(by_token[t].derived)

\* a seeded token that never received a tick, next to one that received a FULL tick
C17_Witness ==
    /\ call.op = "update_tick"
    /\ {OptA, OptB} \subseteq DOMAIN by_token
    /\ by_token[OptB].last_tick = None
    /\ IsSome(by_token[OptA].last_tick) /\ IsSome(by_token[OptA].derived.spread)

\* C18 (as claimed): for every token, the received_ns of the stored last_tick never
\* decreases from one update_tick to the next.
C18_Claim_ReceivedNsMonotonic ==
    [][\A t \in DOMAIN by_token :
          IsSome(by_token[t].last_tick) =>
              by_token'[t].last_tick[1].received_ns >= by_token[t].last_tick[1].received_ns]_vars

\* C19: update_tick on a token that has a previous tick: when received_ns is
\* later than the previous one, price_roc_per_s times the elapsed seconds is the
\* price difference; otherwise the three ROC metrics keep their values.
C19_RocDefinition ==
    [][(/\ call'.op = "update_tick"
        /\ call'.arg[1].instrument_token \in DOMAIN by_token
        /\ IsSome(by_token[call'.arg[1].instrument_token].last_tick)) =>
        LET tick == call'.arg[1]
            t == tick.instrument_token
            prev == by_token[t].last_tick[1]
            old == by_token[t].derived
            new == by_token'[t].derived
        IN IF tick.received_ns > prev.received_ns
           THEN /\ IsSome(new.price_roc_per_s)
                /\ RMul(new.price_roc_per_s[1],
                        RNorm(tick.received_ns - prev.received_ns, 1000000000))
                     = RSub(tick.last_price, prev.last_price)
           ELSE /\ new.price_roc_per_s = old.price_roc_per_s
                /\ new.oi_roc_per_s = old.oi_roc_per_s
                /\ new.vol_roc_per_s = old.vol_roc_per_s]_vars

\* ROC values computed from a later tick are still there after a tick whose
\* received_ns is not later than its predecessor's
C19_Witness ==
    /\ call.op = "update_tick" /\ OptA \in DOMAIN by_token
    /\ by_token[OptA].last_tick = Some(call.arg[1])
    /\ call.arg[1].received_ns = 0
    /\ IsSome(by_token[OptA].derived.price_roc_per_s)
    /\ ~RZero(by_token[OptA].derived.price_roc_per_s[1])
    /\ IsSome(by_token[OptA].derived.oi_roc_per_s)

\* the window the claim describes: window_days brought into [1, 14]
ClaimedWindow(window_days) ==
    CHOOSE w \in 1..14 : \A v \in 1..14 : Abs(w - window_days) <= Abs(v - window_days)

\* C20: the selector clamps window_days to [1, 14], takes the minimum expiry among
\* the NFO / CE-or-PE / NIFTY rows with expiry in [today, today + window_days] and
\* returns exactly the rows with those filters and that expiry, ordered by
\* instrument_token ascending; when no row lies in the window it returns (None, []).
C20_SelectorResult ==
    call.op = "fetch_nifty_current_week_option_meta" =>
        LET catalog == call.arg[1]
            w == ClaimedWindow(call.arg[2])
            options == {r \in catalog : r.exchange = "NFO" /\ r.name = "NIFTY"
                                         /\ (r.instrument_type = "CE" \/ r.instrument_type = "PE")
                                         /\ r.expiry # None}
            inWindow == {r \in options : 0 <= r.expiry[1] /\ r.expiry[1] <= w}
            out == ret[1]
        IN IF inWindow = {}
           THEN out = [expiry |-> None, rows |-> <<>>]
           ELSE \E m \in {r.expiry[1] : r \in inWindow} :
                  /\ \A r \in inWindow : m <= r.expiry[1]
                  /\ out.expiry = Some(DateText(m))
                  /\ Len(out.rows) = Cardinality({r \in options : r.expiry[1] = m})
                  /\ \A i \in 1..Len(out.rows) :
                       /\ \E r \in options :
                            /\ r.expiry[1] = m
                            /\ r.instrument_token = out.rows[i].instrument_token
                            /\ r.tradingsymbol = out.rows[i].tradingsymbol
                            /\ r.instrument_type = out.rows[i].instrument_type
                            /\ r.strike = out.rows[i].strike
                            /\ out.rows[i].expiry = Some(DateText(m))
                       /\ i > 1 => out.rows[i - 1].instrument_token
                                       < out.rows[i].instrument_token

\* window 20 used as 14: the two options expiring on the 14th day are returned,
\* the one expiring on the 15th day is not
C20_Witness ==
    /\ call.op = "fetch_nifty_current_week_option_meta"
    /\ call.arg[2] = 20
    /\ Cardinality(call.arg[1]) = 3
    /\ \E r \in call.arg[1] : IsNiftyOption(r) /\ r.expiry = Some(15)
    /\ ret[1].expiry = Some("2026-11-18")
    /\ Len(ret[1].rows) = 2

\* C21: the REST preflight is requested once, before the WS task exists, and never
\* again while the task reconnects; its outcome changes nothing: whatever it was,
\* the next step is the selector, and the selector's step either returns the
\* selector's database error or seeds the store and spawns the WS task
C21_PreflightOnceIgnored ==
    /\ [](preflights <= 1)
    /\ [](ws_pc # "none" => preflights = 1 /\ IsSome(preflight_ok))
    /\ [][preflights' # preflights => ws_pc = "none" /\ ws_pc' = "none"]_vars
    /\ [][pc = "preflight" =>
            pc' = "select" /\ result' = result /\ IsSome(preflight_ok')]_vars
    /\ [][pc = "select" =>
            \/ pc' = "done" /\ result' = Some("db error") /\ ws_pc' = "none"
            \/ /\ pc' = "wait" /\ result' = None /\ seeded' /\ stats_spawned'
               /\ ws_pc' = "run_once" /\ backoff' = InitialBackoff
               /\ \E sel \in SelectorResults :
                    /\ selected' = Some(sel)
                    /\ by_token' = seed_meta(EmptyStore, MetasOf(sel.rows))
                    /\ tokens' = TokenList(MetasOf(sel.rows))]_vars

\* the WS task reconnects after an error although the preflight had failed
C21_Witness ==
    /\ preflight_ok = Some(FALSE) /\ preflights = 1
    /\ ws_pc = "connect" /\ backoff > InitialBackoff /\ seeded

\* C22 (as claimed): the store changes only by complete update_tick calls, and
\* once run_ticker has aborted the WS task no update_tick happens any more
C22_Claim_NoUpdateAfterAbort ==
    /\ [][(seeded /\ by_token' # by_token) => by_token' = ApplyTicks(by_token, rx'.calls)]_vars
    /\ [][abort_req => by_token' = by_token]_vars

\* subscribe and mode of every chunk of the token list are on the wire, in order
AllChunksSent ==
    LET n == CeilDiv(Len(tokens), 300) IN
    /\ Len(writes) >= 2 * n
    /\ \A c \in 1..n :
         LET chunk == SubSeq(tokens, 300 * (c - 1) + 1, Min(300 * c, Len(tokens))) IN
         /\ writes[2 * c - 1] = [a |-> "subscribe", v |-> chunk]
         /\ writes[2 * c] = [a |-> "mode", mode |-> "full", v |-> chunk]

SendFailed == last_err \in {Some("ws subscribe send failed"), Some("ws mode send failed")}

\* C23: within a session no frame is read and no update_tick happens before the
\* subscribe and mode messages of every chunk are sent; a failed subscribe or mode
\* send ends the session with an error, and that session has read no frame
C23_SubscribeBeforeRead ==
    /\ []((ws_pc \in {"read", "binary", "pong"} \/ rx # NoRx) => AllChunksSent)
    /\ [][by_token' # by_token => AllChunksSent]_vars
    /\ [][(ws_pc = "subscribe" /\ ws_pc' # "subscribe") =>
            \/ ws_pc' = "read" /\ AllChunksSent'
            \/ ws_pc' = "ret_err" /\ SendFailed' /\ ~AllChunksSent']_vars
    /\ [](SendFailed => ws_pc = "ret_err" /\ rx = NoRx /\ by_token = StoreOfLen(Len(tokens)))

\* a tick is stored in a session that subscribed three chunks
C23_Witness ==
    /\ ws_pc = "read" /\ rx.kind = "Binary" /\ Len(rx.calls) = 2
    /\ Len(writes) = 6 /\ by_token # StoreOfLen(Len(tokens))

\* C24: a Close frame makes run_once return Ok, a read error makes it return Err;
\* after either, no frame of that connection is processed and nothing is sent on
\* it, and the supervisor connects again (unless the task is aborted first)
C24_CloseAndErrorEndSession ==
    /\ [][(ws_pc = "read" /\ rx'.kind = "Close") =>
            ws_pc' = "ret_ok" /\ last_err' = None]_vars
    /\ [][(ws_pc = "read" /\ rx'.kind = "Error") =>
            ws_pc' = "ret_err" /\ last_err' = Some("ws read error")]_vars
    /\ [][rx.kind \in {"Close", "Error"} =>
            /\ rx' = rx \/ rx' = NoRx
            /\ by_token' = by_token
            /\ writes' = writes \/ writes' = <<>>]_vars
    /\ (rx.kind \in {"Close", "Error"}) ~> (ws_pc = "connect" \/ ws_pc = "aborted")

\* after a Close frame the supervisor is about to call run_once again
C24_Witness == rx.kind = "Close" /\ ws_pc = "run_once" /\ ~abort_req /\ grown > InitialBackoff

\* C25: a Ping is answered by one Pong with the Ping's payload (or the session
\* fails with "ws pong send failed"); Text and Pong frames send nothing; none of
\* the three changes the store or the backoff, and the session keeps reading
C25_PingPongText ==
    /\ [][(ws_pc = "read" /\ rx'.kind = "Ping") =>
            /\ ws_pc' = "pong" /\ writes' = writes
            /\ by_token' = by_token /\ backoff' = backoff]_vars
    /\ [][ws_pc = "pong" =>
            /\ rx' = rx /\ by_token' = by_token /\ backoff' = backoff
            /\ \/ ws_pc' = "pong" /\ writes' = writes
               \/ ws_pc' = "read" /\ writes' = Append(writes, [a |-> "pong", v |-> rx.bin])
               \/ /\ ws_pc' = "ret_err" /\ last_err' = Some("ws pong send failed")
                  /\ writes' = writes]_vars
    /\ [][(ws_pc = "read" /\ rx'.kind \in {"Text", "Pong"}) =>
            /\ ws_pc' = "read" /\ writes' = writes
            /\ by_token' = by_token /\ backoff' = backoff]_vars

\* a Ping with a one-byte payload was answered and the session reads on
C25_Witness ==
    /\ ws_pc = "read" /\ rx.kind = "Ping" /\ rx.bin = <<1>>
    /\ writes[Len(writes)] = [a |-> "pong", v |-> <<1>>]

\* C26: update_tick of a tick with depth on a token of the store sets best_bid and
\* best_ask to the prices of the first buy and sell level, spread to their
\* difference and spread_bps to spread / last_price * 10000 when last_price > 0 and
\* to None otherwise, with or without a previous tick and whatever the elapsed
\* time; the tick becomes last_tick
C26_SpreadFromDepth ==
    [][(/\ call'.op = "update_tick"
        /\ call'.arg[1].instrument_token \in DOMAIN by_token
        /\ IsSome(call'.arg[1].depth)) =>
        LET tick == call'.arg[1]
            new == by_token'[tick.instrument_token]
            bid == tick.depth[1].buy[1].price
            ask == tick.depth[1].sell[1].price
        IN /\ new.derived.best_bid = Some(bid)
           /\ new.derived.best_ask = Some(ask)
           /\ new.derived.spread = Some(RSub(ask, bid))
           /\ IF RPos(tick.last_price)
              THEN /\ IsSome(new.derived.spread_bps)
                   /\ RMul(new.derived.spread_bps[1], tick.last_price)
                        = RMul(RSub(ask, bid), F64(10000))
              ELSE new.derived.spread_bps = None
           /\ new.last_tick = Some(tick)]_vars

\* the first tick of a seeded token carries depth and a last_price of zero
C26_Witness ==
    /\ call.op = "update_tick" /\ IsSome(call.arg[1].depth) /\ RZero(call.arg[1].last_price)
    /\ by_token[OptA].meta = MetaA1
    /\ by_token[OptA].last_tick = Some(call.arg[1])
    /\ by_token[OptA].derived.price_roc_per_s = None
    /\ by_token[OptA].derived.spread = Some(Price(20))
    /\ by_token[OptA].derived.spread_bps = None

\* C27: on update_tick with a later received_ns than the previous tick's,
\* oi_roc_per_s is set from the two open_interest values when both ticks have one
\* and keeps its value otherwise; the same for vol_roc_per_s and volume_traded
C27_RocNeedsBothSides ==
    [][(/\ call'.op = "update_tick"
        /\ call'.arg[1].instrument_token \in DOMAIN by_token
        /\ IsSome(by_token[call'.arg[1].instrument_token].last_tick)
        /\ call'.arg[1].received_ns
               > by_token[call'.arg[1].instrument_token].last_tick[1].received_ns) =>
        LET tick == call'.arg[1]
            t == tick.instrument_token
            prev == by_token[t].last_tick[1]
            old == by_token[t].derived
            new == by_token'[t].derived
            dt_s == RNorm(tick.received_ns - prev.received_ns, 1000000000)
        IN /\ IF IsSome(tick.open_interest) /\ IsSome(prev.open_interest)
              THEN /\ IsSome(new.oi_roc_per_s)
                   /\ RMul(new.oi_roc_per_s[1], dt_s)
                        = F64(tick.open_interest[1] - prev.open_interest[1])
              ELSE new.oi_roc_per_s = old.oi_roc_per_s
           /\ IF IsSome(tick.volume_traded) /\ IsSome(prev.volume_traded)
              THEN /\ IsSome(new.vol_roc_per_s)
                   /\ RMul(new.vol_roc_per_s[1], dt_s)
                        = F64(tick.volume_traded[1] - prev.volume_traded[1])
              ELSE new.vol_roc_per_s = old.vol_roc_per_s]_vars

\* a QUOTE tick half a second after a FULL tick: vol_roc_per_s is recomputed from
\* volumes 12 and 15, oi_roc_per_s is still the one of the two FULL ticks before
C27_Witness ==
    /\ call.op = "update_tick" /\ call.arg[1].mode = "Quote"
    /\ call.arg[1].received_ns = 2 * NsStep
    /\ by_token[OptA].last_tick = Some(call.arg[1])
    /\ by_token[OptA].derived.vol_roc_per_s = Some(F64(6))
    /\ by_token[OptA].derived.oi_roc_per_s = Some(F64(4))

\* C28: the store holds one state per token, filed under its own token; a step
\* removes no token and clears no last_tick, so len() and received_token_count()
\* never decrease, and received_token_count() <= len() in every state
C28_StoreMonotone ==
    /\ [](\A t \in DOMAIN by_token : by_token[t].meta.instrument_token = t)
    /\ [](received_token_count(by_token) <= len(by_token))
    /\ [][/\ DOMAIN by_token \subseteq DOMAIN by_token'
          /\ \A t \in DOMAIN by_token :
               IsSome(by_token[t].last_tick) => IsSome(by_token'[t].last_tick)
          /\ len(by_token') >= len(by_token)
          /\ received_token_count(by_token') >= received_token_count(by_token)]_vars

\* seed_meta on a store that already holds ticks: three tokens, two with a tick
C28_Witness ==
    /\ call.op = "seed_meta" /\ Len(call.arg) = 2
    /\ len(by_token) = 3 /\ received_token_count(by_token) = 2
    /\ IsSome(by_token[OptA].last_tick) /\ by_token[OptB].last_tick = None

QuoteFields ==
    {"last_quantity", "average_traded_price", "volume_traded", "total_buy_quantity",
     "total_sell_quantity", "ohlc", "change"}
FullOnlyFields ==
    {"last_trade_time", "open_interest", "oi_day_high", "oi_day_low",
     "exchange_timestamp", "depth"}

\* the optional fields a tick carries
PresentFields(tick) == {f \in QuoteFields \cup FullOnlyFields : IsSome(tick[f])}

\* C29: decode_packet chooses the mode by the packet length alone: 8 bytes give
\* LTP without optional fields; 28 give QUOTE with ohlc and change only; 44 give
\* QUOTE with all quote fields and no FULL-only field; 184 give FULL with every
\* optional field, the depth holding 5 buy and 5 sell levels
C29_ModeByLength ==
    (call.op = "decode_packet" /\ Len(call.arg[1]) \in {8, 28, 44, 184}) =>
        /\ IsSome(ret)
        /\ LET tick == ret[1]
               n == Len(call.arg[1])
           IN CASE n = 8 -> tick.mode = "Ltp" /\ PresentFields(tick) = {}
                [] n = 28 -> tick.mode = "Quote" /\ PresentFields(tick) = {"ohlc", "change"}
                [] n = 44 -> tick.mode = "Quote" /\ PresentFields(tick) = QuoteFields
                [] n = 184 ->
                     /\ tick.mode = "Full"
                     /\ PresentFields(tick) = QuoteFields \cup FullOnlyFields
                     /\ DOMAIN tick.depth[1].buy = 1..5
                     /\ DOMAIN tick.depth[1].sell = 1..5

\* a 44-byte packet was decoded
C29_Witness ==
    /\ call.op = "decode_packet" /\ Len(call.arg[1]) = 44
    /\ IsSome(ret) /\ ret[1].mode = "Quote" /\ ret[1].volume_traded = Some(5)

\* price times 100 is the wire integer
IsPriceOf(price, wire) == RMul(price, F64(100)) = F64(wire)

\* C30: every price of a decoded tick is the signed wire integer of its field
\* divided by 100: last_price, the average price, open, high, low, close, the ten
\* depth prices, and the change of a 28-byte packet; the change of a 44- or
\* 184-byte packet is (last_price - close) / close, or 0 when close is 0
C30_PricesAndChange ==
    (call.op = "decode_packet" /\ IsSome(ret)) =>
        LET tick == ret[1]
            w == call.arg[2]
            n == Len(w)
        IN /\ IsPriceOf(tick.last_price, w[2])
           /\ n = 7 =>
                /\ IsPriceOf(tick.ohlc[1].high, w[3]) /\ IsPriceOf(tick.ohlc[1].low, w[4])
                /\ IsPriceOf(tick.ohlc[1].open, w[5]) /\ IsPriceOf(tick.ohlc[1].close, w[6])
                /\ IsPriceOf(tick.change[1], w[7])
           /\ n \in {11, 16} =>
                /\ IsPriceOf(tick.average_traded_price[1], w[4])
                /\ IsPriceOf(tick.ohlc[1].open, w[8]) /\ IsPriceOf(tick.ohlc[1].high, w[9])
                /\ IsPriceOf(tick.ohlc[1].low, w[10]) /\ IsPriceOf(tick.ohlc[1].close, w[11])
                /\ IF w[11] # 0
                   THEN RMul(tick.change[1], F64(w[11])) = F64(w[2] - w[11])
                   ELSE tick.change[1] = F64(0)
           /\ n = 16 =>
                \A j \in 1..5 :
                    /\ IsPriceOf(tick.depth[1].buy[j].price, call.arg[3][j])
                    /\ IsPriceOf(tick.depth[1].sell[j].price, call.arg[3][5 + j])

\* a 184-byte packet with negative prices and a close of zero
C30_Witness ==
    /\ call.op = "decode_packet" /\ Len(call.arg[1]) = 184 /\ IsSome(ret)
    /\ call.arg[2][2] < 0 /\ call.arg[2][11] = 0
    /\ ret[1].change = Some(F64(0))
    /\ ret[1].last_price = RNorm(0 - 9, 100)

\* tokens of the rows the selector returned
SelectedTokens == {selected[1].rows[i].instrument_token : i \in 1..Len(selected[1].rows)}

\* C31: once the WS task exists, its subscription set is the selector's tokens plus
\* the index token 256265, the token list is strictly increasing, and every token
\* of the allow-set has a state in the store, the index token's of type "INDEX";
\* at the spawn itself the store is seeded and holds no tick yet
C31_IndexSeededSorted ==
    /\ [](ws_pc # "none" =>
            /\ allowed = SelectedTokens \cup {256265}
            /\ {tokens[i] : i \in 1..Len(tokens)} = allowed
            /\ \A i \in 1..(Len(tokens) - 1) : tokens[i] < tokens[i + 1]
            /\ allowed \subseteq DOMAIN by_token
            /\ by_token[256265].meta.instrument_type = "INDEX"
            /\ \A i \in 1..Len(selected[1].rows) :
                 by_token[selected[1].rows[i].instrument_token].meta = selected[1].rows[i])
    /\ [][(ws_pc = "none" /\ ws_pc' # "none") =>
            /\ seeded' /\ ws_pc' = "run_once"
            /\ DOMAIN by_token' = allowed'
            /\ \A t \in allowed' : by_token'[t].last_tick = None]_vars

\* the task starts with a contract on either side of the index token
C31_Witness ==
    /\ ws_pc = "run_once" /\ fail_streak = 0 /\ backoff = InitialBackoff /\ grown = 0
    /\ tokens = <<OptA, 256265, OptB>>
    /\ \A t \in allowed : by_token[t].last_tick = None

\* the token list run_ticker built from the selector's rows
SpawnTokens == TokenList(MetasOf(selected[1].rows))

\* the messages subscribe_full sends for a token list, in order
SubscribeSequence(toks) ==
    [k \in 1..(2 * NumChunks(Len(toks))) |->
        IF k % 2 = 1 THEN SubscribeMsg(ChunkAt(toks, (k + 1) \div 2))
                     ELSE ModeMsg(ChunkAt(toks, k \div 2))]

\* C32: while the WS task exists its token list and allow-set never change; every
\* connection that reaches the read loop, the first or a reconnect, has sent the
\* subscribe/mode sequence of the list given at the spawn, and every binary frame
\* is filtered with the allow-set of that list
C32_SameSubscriptionEveryConnection ==
    /\ [][ws_pc # "none" => tokens' = tokens /\ allowed' = allowed]_vars
    /\ [](ws_pc # "none" => tokens = SpawnTokens /\ allowed = AllowedOf(SpawnTokens))
    /\ [](ws_pc \in {"read", "binary", "pong"} =>
            /\ Len(writes) >= 2 * NumChunks(Len(SpawnTokens))
            /\ SubSeq(writes, 1, 2 * NumChunks(Len(SpawnTokens)))
                 = SubscribeSequence(SpawnTokens))
    /\ [][(ws_pc = "binary" /\ ws_pc' = "read") =>
            rx'.calls = SelectSeq(rx'.decoded,
                LAMBDA t : t.instrument_token \in AllowedOf(SpawnTokens))]_vars

\* a reconnect after failures has subscribed again and filtered a frame
C32_Witness ==
    /\ ws_pc = "read" /\ backoff > InitialBackoff /\ fail_streak >= 1
    /\ Len(tokens) = 3 /\ Len(writes) = 2
    /\ rx.kind = "Binary" /\ Len(rx.decoded) = 3 /\ Len(rx.calls) = 2

\* positions of the packets of a frame that carry the token
PacketsOf(ticks, tok) == {i \in 1..Len(ticks) : ticks[i].instrument_token = tok}

\* the last packet of the frame for the token
LastPacketOf(ticks, tok) ==
    ticks[CHOOSE i \in PacketsOf(ticks, tok) : \A j \in PacketsOf(ticks, tok) : j <= i]

\* C33: the update_tick calls of a frame are its allowed ticks in packet order, so
\* after the frame each allowed token of the frame has its last packet as
\* last_tick, and the allowed tokens the frame does not carry keep their state
C33_FrameOrder ==
    [][(ws_pc = "binary" /\ ws_pc' = "read") =>
        /\ \A i, j \in 1..Len(rx'.calls) : i < j =>
             \E a, b \in 1..Len(rx'.decoded) :
                a < b /\ rx'.decoded[a] = rx'.calls[i] /\ rx'.decoded[b] = rx'.calls[j]
        /\ \A tok \in allowed :
             IF PacketsOf(rx'.decoded, tok) # {}
             THEN by_token'[tok].last_tick = Some(LastPacketOf(rx'.decoded, tok))
             ELSE by_token'[tok] = by_token[tok]]_vars

\* a frame carried the same token twice and the later price is the stored one
C33_Witness ==
    /\ ws_pc = "read" /\ rx.kind = "Binary"
    /\ Cardinality(PacketsOf(rx.decoded, OptA)) = 2
    /\ rx.decoded[1].last_price = Price(10000)
    /\ OptA \in DOMAIN by_token
    /\ by_token[OptA].last_tick[1].last_price = Price(10050)

\* C34: while the WS task runs, the store holds exactly the seeded tokens, which
\* are the tokens of the allow-set: no frame and no reconnect adds or removes a
\* token, no state carries the UNKNOWN placeholder, and len() is the seeded count
C34_StoreTokensFixed ==
    /\ [](ws_pc # "none" =>
            /\ DOMAIN by_token = allowed
            /\ len(by_token) = Cardinality(SelectedTokens \cup {256265})
            /\ \A t \in DOMAIN by_token : by_token[t].meta.instrument_type # "UNKNOWN")
    /\ [][ws_pc # "none" => DOMAIN by_token' = DOMAIN by_token]_vars
    /\ [][(ws_pc = "binary" /\ ws_pc' = "read") =>
            \A i \in 1..Len(rx'.calls) : rx'.calls[i].instrument_token \in DOMAIN by_token]_vars

\* a reconnected session dropped a tick of a token that was never seeded
C34_Witness ==
    /\ ws_pc = "read" /\ fail_streak >= 1 /\ rx.kind = "Binary"
    /\ PacketsOf(rx.decoded, Stray) # {} /\ Stray \notin DOMAIN by_token
    /\ len(by_token) = 3 /\ \E t \in allowed : IsSome(by_token[t].last_tick)

\* C35: once a TokenState exists for a token, no step of seed_meta or update_tick
\* on any thread removes it or replaces its meta
C35_Claim_MetaNeverReplaced ==
    [][\A t \in DOMAIN by_token :
          t \in DOMAIN by_token' /\ by_token'[t].meta = by_token[t].meta]_vars

\* the four spread metrics of a state
SpreadMetrics(state) ==
    <<state.derived.best_bid, state.derived.best_ask,
      state.derived.spread, state.derived.spread_bps>>

\* C36: update_tick of a tick without depth (LTP or QUOTE) on a token of the store
\* leaves best_bid, best_ask, spread and spread_bps as they were and stores the
\* tick as last_tick, so the spread metrics can belong to an earlier FULL tick
C36_DepthlessKeepsSpread ==
    [][(/\ call'.op = "update_tick"
        /\ call'.arg[1].instrument_token \in DOMAIN by_token
        /\ call'.arg[1].depth = None) =>
        LET tick == call'.arg[1]
            tok == tick.instrument_token
        IN /\ SpreadMetrics(by_token'[tok]) = SpreadMetrics(by_token[tok])
           /\ by_token'[tok].last_tick = Some(tick)]_vars

\* the last tick is an LTP tick at 100.00 and the stored spread_bps is still the
\* one computed with the last_price 101.00 of the FULL tick before it
C36_Witness ==
    /\ call.op = "update_tick" /\ OptA \in DOMAIN by_token
    /\ by_token[OptA].last_tick = Some(call.arg[1])
    /\ call.arg[1].mode = "Ltp" /\ call.arg[1].last_price = Price(10000)
    /\ by_token[OptA].derived.best_bid = Some(Price(9990))
    /\ by_token[OptA].derived.best_ask = Some(Price(10010))
    /\ IsSome(by_token[OptA].derived.spread_bps)
    /\ RMul(by_token[OptA].derived.spread_bps[1], Price(10100))
         = RMul(by_token[OptA].derived.spread[1], F64(10000))

\* C37: while the task lives, the backoff changes only in the Ok arm of
\* run_forever, which sets it to 250ms, and after the sleep of the Err arm, which
\* doubles it up to the cap; connecting, subscribing and reading frames leave it
\* alone, so a session that read frames and then failed sleeps the backoff the
\* earlier failures left and doubles it again
C37_BackoffResetOnlyOnCleanExit ==
    /\ [][(ws_pc \notin {"none", "aborted"} /\ ws_pc' # "aborted" /\ backoff' # backoff) =>
            \/ ws_pc = "ret_ok" /\ backoff' = 250
            \/ ws_pc = "sleep" /\ backoff' = Min(2 * backoff, 30000) /\ backoff' > backoff]_vars
    /\ [][(ws_pc = "ret_err" /\ ws_pc' = "sleep") => sleep_ms' = backoff]_vars
    /\ [][(ws_pc = "read" /\ ws_pc' = "ret_err") =>
            backoff' = backoff /\ last_err' = Some("ws read error")]_vars

\* a session that subscribed failed in the read loop, with ticks in the store, and
\* sleeps the one second that two earlier failures left
C37_Witness ==
    /\ ws_pc = "sleep" /\ last_err = Some("ws read error")
    /\ Len(writes) = 2 /\ \E t \in allowed : IsSome(by_token[t].last_tick)
    /\ sleep_ms = 1000 /\ backoff = 1000 /\ fail_streak = 3

\* C38: every iteration of the supervisor loop after the first, and so every
\* connection attempt after the first, is entered from a sleep of at least 250ms
C38_Claim_SleepBeforeEveryReconnect ==
    [][(ws_pc' = "run_once" /\ ws_pc \notin {"none", "run_once"}) =>
        ws_pc = "sleep" /\ sleep_ms >= 250]_vars

NoTokensErr == Some("no tokens to subscribe")

\* C39: a WS task built with an empty token list is only ever at the call of
\* run_once, at its error return or in the backoff sleep; it never builds a
\* request, connects, sends or reads, the store stays as it was seeded, every
\* run_once fails with "no tokens to subscribe", and each failure is followed by
\* a sleep of the current backoff and by the next run_once
C39_EmptyTokenListNeverConnects ==
    /\ [](tokens = <<>> =>
            /\ ws_pc \in {"run_once", "ret_err", "sleep"}
            /\ writes = <<>> /\ rx = NoRx /\ ping = None
            /\ first_err \in {None, NoTokensErr}
            /\ by_token = StoreOfLen(Len(selected[1].rows) + 1)
            /\ ws_pc \in {"ret_err", "sleep"} => last_err = NoTokensErr)
    /\ [][(tokens = <<>> /\ ws_pc = "run_once" /\ ws_pc' # "run_once") =>
            ws_pc' = "ret_err" /\ last_err' = NoTokensErr]_vars
    /\ (tokens = <<>> /\ ws_pc = "ret_err") ~> (ws_pc = "sleep" /\ sleep_ms = backoff)
    /\ (tokens = <<>> /\ ws_pc = "sleep") ~> (ws_pc = "run_once" /\ last_err = None)

\* the task without tokens sleeps the capped backoff after its ninth failure
C39_Witness ==
    /\ tokens = <<>> /\ ws_pc = "sleep" /\ last_err = NoTokensErr
    /\ fail_streak = 9 /\ sleep_ms = 30000 /\ first_err = NoTokensErr

\* the packets of a list that are at least 8 bytes long
AtLeastEight(pk) == SelectSeq(pk, LAMBDA p : Len(p) >= 8)

\* C40: decode_binary_ticks returns at most as many ticks as the header count; of
\* a frame received in full it decodes the first n_packets packets only, the
\* bytes after them changing nothing; fewer than 2 bytes give no tick; and a
\* packet shorter than 8 bytes gives no tick while the packets after it are
\* decoded as if it were not there
C40_AtMostHeaderCount ==
    Decoded =>
        LET pk == call.arg[1]
            c == call.arg[2]
            k == call.arg[3]
            ns == call.arg[4]
            whole == k = Len(FrameWith(c, pk))
        IN /\ Len(ret) <= c
           /\ k < 2 => ret = <<>>
           /\ (whole /\ c <= Len(pk)) =>
                 /\ ret = decode_binary_ticks(FrameOf(SubSeq(pk, 1, c)), ns)
                 /\ ret = decode_binary_ticks(FrameOf(AtLeastEight(SubSeq(pk, 1, c))), ns)
                 /\ Len(ret) <= Len(AtLeastEight(SubSeq(pk, 1, c)))

\* two packets received in full under a header count of one: only the first,
\* the LTP packet, is decoded
C40_Witness ==
    /\ Decoded
    /\ Len(call.arg[1]) = 2 /\ Len(call.arg[1][1]) = 8 /\ Len(call.arg[1][2]) = 184
    /\ call.arg[2] = 1 /\ call.arg[3] = Len(FrameWith(1, call.arg[1]))
    /\ Len(ret) = 1 /\ ret[1].mode = "Ltp"
====
